---- MODULE Spec2Model ----
(***************************************************************************)
(* Chessburn: the notation import and timeline engine of the viewer.       *)
(*                                                                         *)
(* Two builds of the application component are modelled, selected by the   *)
(* variable build:                                                         *)
(*   "app"  src/src/App.jsx      (ply cursor, undo, no transcript import)  *)
(*   "pgn"  src/unnamed/part_002 (ply cursor, transcript import, keyboard  *)
(*                                navigation, click-to-move board)         *)
(*                                                                         *)
(* Text is a sequence of one-character strings.  The rules authority       *)
(* (chess.js) is modelled on a finite fragment of chess: the moves e4, d4, *)
(* Nf3 for White and e5, Nc6 for Black, each playable once, from any       *)
(* position in which the piece still stands on its home square.            *)
(***************************************************************************)
EXTENDS Integers, Sequences, FiniteSets, TLC

(***************************************************************************)
(* Bounds of the model.                                                    *)
(***************************************************************************)
\* largest ply handed to jumpToPly when it is called directly
MaxPly == 3

\* most file reads in flight at a time that differ in their text or in the
\* render that started them
MaxReads == 1

\* longest history handed to the replay when it is checked on its own
MaxHist == 3

\* most pieces of a transcript with variations handed to the tokenizer
MaxNestedPieces == 6

\* most pieces of a transcript of plain moves handed to the tokenizer
MaxPlainPieces == 4

\* most pieces of a transcript with metadata tags handed to the tokenizer
MaxTagPieces == 3

\* most pieces of a transcript with result markers handed to the tokenizer
MaxResultPieces == 4

\* most pieces of a transcript with move-number markers handed to the tokenizer
MaxMarkerPieces == 4

\* most pieces of a transcript of annotated moves handed to the tokenizer
MaxAnnotPieces == 4

\* most pieces of a transcript with comments handed to the tokenizer
MaxCommentPieces == 4

\* most characters of the sixth field of a key handed to the move number offset
MaxFieldLen == 3

(***************************************************************************)
(* Characters and text helpers.                                            *)
(***************************************************************************)
Digits == <<"0", "1", "2", "3", "4", "5", "6", "7", "8", "9">>

IsDigit(c) == \E i \in 1..10 : Digits[i] = c

DigitVal(c) == (CHOOSE i \in 1..10 : Digits[i] = c) - 1

\* A character of the Basic Latin block is written as itself (the vertical
\* tab U+000B as the character itself); any other character is written as
\* the name of its code point, "U+00A0".

\* JavaScript LineTerminator: the characters that . does not match and at
\* which ^ and $ hold under the m flag
IsLineTerminator(c) == c \in {"\n", "\r", "U+2028", "U+2029"}

\* JavaScript \s (and the characters trim() strips): WhiteSpace and
\* LineTerminator
IsSpace(c) ==
    c \in {"\t", "\n", "", "\f", "\r", " ", "U+00A0", "U+1680",
           "U+2000", "U+2001", "U+2002", "U+2003", "U+2004", "U+2005",
           "U+2006", "U+2007", "U+2008", "U+2009", "U+200A",
           "U+2028", "U+2029", "U+202F", "U+205F", "U+3000", "U+FEFF"}

\* [^\S\r\n] : white space other than \r and \n
IsHSpace(c) == IsSpace(c) /\ c \notin {"\r", "\n"}

\* JavaScript \w
IsWordChar(c) ==
    c \in {"a", "b", "c", "d", "e", "f", "g", "h", "i", "j", "k", "l", "m",
           "n", "o", "p", "q", "r", "s", "t", "u", "v", "w", "x", "y", "z",
           "A", "B", "C", "D", "E", "F", "G", "H", "I", "J", "K", "L", "M",
           "N", "O", "P", "Q", "R", "S", "T", "U", "V", "W", "X", "Y", "Z",
           "0", "1", "2", "3", "4", "5", "6", "7", "8", "9", "_"}

\* A value that the source computes once and uses by name is bound by a
\* quantifier over a singleton set, {e : x \in {v}} or \E x \in {v}.

RECURSIVE ParseNatAcc(_, _, _)
ParseNatAcc(s, i, acc) ==
    IF i > Len(s) THEN acc ELSE ParseNatAcc(s, i + 1, acc * 10 + DigitVal(s[i]))

AllDigits(s) == Len(s) > 0 /\ \A i \in 1..Len(s) : IsDigit(s[i])

ParseNat(s) == ParseNatAcc(s, 1, 0)

RECURSIVE FormatNat(_)
FormatNat(n) ==
    IF n < 10 THEN <<Digits[n + 1]>>
    ELSE FormatNat(n \div 10) \o <<Digits[(n % 10) + 1]>>

\* String.prototype.split(/\s+/): fields between runs of white space; a leading
\* or trailing run yields an empty first or last field.
\* SplitWsFrom(s, i): the fields of s from index i on, the first of them being
\* the rest of the field that is open at i.
RECURSIVE SplitWsFrom(_, _)
SplitWsFrom(s, i) ==
    IF i > Len(s) THEN << <<>> >>
    ELSE IF IsSpace(s[i])
         THEN IF i > 1 /\ IsSpace(s[i - 1])
              THEN SplitWsFrom(s, i + 1)
              ELSE << <<>> >> \o SplitWsFrom(s, i + 1)
         ELSE CHOOSE fields \in {<< <<s[i]>> \o Head(r) >> \o Tail(r) :
                                 r \in {SplitWsFrom(s, i + 1)}} : TRUE

SplitWs(s) == SplitWsFrom(s, 1)

(***************************************************************************)
(* The rules authority (chess.js) on the modelled fragment of chess.       *)
(* A position is the set of pieces that have left their home square, the   *)
(* side to move, the half-move clock and the full-move number; its key     *)
(* (FEN) is the text "<placement> <turn> - - <halfmove> <fullmove>".       *)
(***************************************************************************)
e4 == <<"e", "4">>
d4 == <<"d", "4">>
Nf3 == <<"N", "f", "3">>
e5 == <<"e", "5">>
Nc6 == <<"N", "c", "6">>

\* the moves of the fragment, with the letter that marks the moved piece in
\* the placement field
MoveTable ==
    << [san |-> e4,  by |-> "w", from |-> "e2", to |-> "e4", code |-> "E", pawn |-> TRUE],
       [san |-> d4,  by |-> "w", from |-> "d2", to |-> "d4", code |-> "D", pawn |-> TRUE],
       [san |-> Nf3, by |-> "w", from |-> "g1", to |-> "f3", code |-> "N", pawn |-> FALSE],
       [san |-> e5,  by |-> "b", from |-> "e7", to |-> "e5", code |-> "e", pawn |-> TRUE],
       [san |-> Nc6, by |-> "b", from |-> "b8", to |-> "c6", code |-> "n", pawn |-> FALSE] >>

MoveIds == 1..Len(MoveTable)

Codes == {MoveTable[i].code : i \in MoveIds}

\* placement field: the codes of the moved pieces in table order, "0" if none
RECURSIVE PlacementFrom(_, _)
PlacementFrom(pl, i) ==
    IF i > Len(MoveTable) THEN <<>>
    ELSE (IF MoveTable[i].code \in pl THEN <<MoveTable[i].code>> ELSE <<>>)
         \o PlacementFrom(pl, i + 1)

Placement(pl) == IF pl = {} THEN <<"0">> ELSE PlacementFrom(pl, 1)

\* Chess objects: a position and the moves made on this object since it was
\* constructed (ch.history({verbose: true}))
NewChess ==
    [pl |-> {}, turn |-> "w", half |-> 0, full |-> 1, hist |-> <<>>]

\* ch.fen()
Fen(ch) ==
    Placement(ch.pl) \o <<" ", ch.turn, " ", "-", " ", "-", " ">>
    \o FormatNat(ch.half) \o <<" ">> \o FormatNat(ch.full)

\* FEN validation as performed by the constructor: six white-space separated
\* fields, each well formed
ValidFen(s) ==
    \E f \in {SplitWs(s)} :
        /\ Len(f) = 6
        /\ \E pl \in SUBSET Codes : Placement(pl) = f[1]
        /\ f[2] \in {<<"w">>, <<"b">>}
        /\ f[3] = <<"-">>
        /\ f[4] = <<"-">>
        /\ AllDigits(f[5])
        /\ AllDigits(f[6]) /\ ParseNat(f[6]) >= 1

\* strippedSan: decorations removed before a notation is compared with the
\* legal moves
RECURSIVE DropTrailing(_, _)
DropTrailing(t, set) ==
    IF Len(t) > 0 /\ t[Len(t)] \in set
    THEN DropTrailing(SubSeq(t, 1, Len(t) - 1), set)
    ELSE t

StrippedSan(t) ==
    CHOOSE san \in {IF Len(a) > 0 /\ a[Len(a)] \in {"+", "#"}
                     THEN SubSeq(a, 1, Len(a) - 1)
                     ELSE a : a \in {DropTrailing(t, {"!", "?"})}} : TRUE

LegalId(ch, i) ==
    /\ MoveTable[i].by = ch.turn
    /\ MoveTable[i].code \notin ch.pl

\* the position after the legal move i, recorded in the object's history
Played(ch, i) ==
    [pl |-> ch.pl \cup {MoveTable[i].code},
     turn |-> IF ch.turn = "w" THEN "b" ELSE "w",
     half |-> IF MoveTable[i].pawn THEN 0 ELSE ch.half + 1,
     full |-> IF ch.turn = "b" THEN ch.full + 1 ELSE ch.full,
     hist |-> Append(ch.hist,
                     [from |-> MoveTable[i].from, to |-> MoveTable[i].to,
                      san |-> MoveTable[i].san])]

\* the fields of a valid key read into a Chess object
ParseFen(s) ==
    CHOOSE ch \in {[pl |-> {f[1][i] : i \in 1..Len(f[1])} \ {"0"},
                    turn |-> f[2][1],
                    half |-> ParseNat(f[5]),
                    full |-> ParseNat(f[6]),
                    hist |-> <<>>] : f \in {SplitWs(s)}} : TRUE

\* the keys of the start position, of the position after 1. e4 and of the one
\* after 1. e4 e5, read once
ParsedKeys ==
    [s \in {Fen(ch) : ch \in UNION {{NewChess, a, Played(a, 4)} :
                                     a \in {Played(NewChess, 1)}}} |->
        ParseFen(s)]

\* new Chess(fen) for a valid fen (the constructor throws on an invalid one)
LoadChess(s) ==
    CHOOSE ch \in {IF s \in DOMAIN known THEN known[s] ELSE ParseFen(s) :
                   known \in {ParsedKeys}} : TRUE

\* ch.move(notation): the legal move the notation denotes, 0 if none
SanMoveId(ch, tok) ==
    CHOOSE id \in
        {IF \E i \in MoveIds : LegalId(ch, i) /\ MoveTable[i].san = san
         THEN CHOOSE i \in MoveIds : LegalId(ch, i) /\ MoveTable[i].san = san
         ELSE 0 : san \in {StrippedSan(tok)}} : TRUE

\* ch.move({from, to, promotion}): the legal move between the squares, 0 if none
SquareMoveId(ch, from, to) ==
    IF \E i \in MoveIds : LegalId(ch, i) /\ MoveTable[i].from = from
                          /\ MoveTable[i].to = to
    THEN CHOOSE i \in MoveIds : LegalId(ch, i) /\ MoveTable[i].from = from
                                /\ MoveTable[i].to = to
    ELSE 0

\* ch.moves({square, verbose: true})
MovesFrom(ch, sq) == {i \in MoveIds : LegalId(ch, i) /\ MoveTable[i].from = sq}

\* ch.get(square) as the board shows it: whether a piece stands on the square
Occupied(ch, sq) ==
    \/ \E i \in MoveIds : MoveTable[i].from = sq /\ MoveTable[i].code \notin ch.pl
    \/ \E i \in MoveIds : MoveTable[i].to = sq /\ MoveTable[i].code \in ch.pl

(***************************************************************************)
(* The tokenizer: sanitizeAndTokenizePgn and its regular expressions, each *)
(* computed as the JavaScript engine computes the replacement (leftmost    *)
(* match first, matches not overlapping).                                  *)
(***************************************************************************)
UpperCase == <<"A", "B", "C", "D", "E", "F", "G", "H", "I", "J", "K", "L", "M",
               "N", "O", "P", "Q", "R", "S", "T", "U", "V", "W", "X", "Y", "Z">>

LowerCase == <<"a", "b", "c", "d", "e", "f", "g", "h", "i", "j", "k", "l", "m",
               "n", "o", "p", "q", "r", "s", "t", "u", "v", "w", "x", "y", "z">>

ToLower(c) ==
    IF \E i \in 1..26 : UpperCase[i] = c
    THEN LowerCase[CHOOSE i \in 1..26 : UpperCase[i] = c]
    ELSE c

\* the character at i, "" past either end
At(s, i) == IF i >= 1 /\ i <= Len(s) THEN s[i] ELSE ""

\* first index >= i whose character is not white space, Len(s) + 1 if none
RECURSIVE SkipWs(_, _)
SkipWs(s, i) == IF i <= Len(s) /\ IsSpace(s[i]) THEN SkipWs(s, i + 1) ELSE i

\* first index >= i whose character is in set, Len(s) + 1 if none
RECURSIVE FindIn(_, _, _)
FindIn(s, i, set) ==
    IF i > Len(s) \/ s[i] \in set THEN i ELSE FindIn(s, i + 1, set)

\* first index >= i whose character is not a digit, Len(s) + 1 if none
RECURSIVE SkipDigits(_, _)
SkipDigits(s, i) == IF i <= Len(s) /\ IsDigit(s[i]) THEN SkipDigits(s, i + 1) ELSE i

\* whether the literal w stands at index i, compared without regard to case
LiteralAt(s, i, w) ==
    /\ i + Len(w) - 1 <= Len(s)
    /\ \A k \in 1..Len(w) : ToLower(s[i + k - 1]) = ToLower(w[k])

\* s.replace(/\r\n?/g, "\n")
RECURSIVE NormalizeNewlines(_, _)
NormalizeNewlines(s, i) ==
    IF i > Len(s) THEN <<>>
    ELSE IF s[i] = "\r"
         THEN <<"\n">> \o NormalizeNewlines(s, IF At(s, i + 1) = "\n" THEN i + 2 ELSE i + 1)
         ELSE <<s[i]>> \o NormalizeNewlines(s, i + 1)

\* the match of /\[<name>\s+"([^"]+)"\]/i at index i: the captured value, or
\* the empty text when the pattern does not match there
TagValueAt(s, i, name) ==
    IF ~(At(s, i) = "[" /\ LiteralAt(s, i + 1, name)) THEN <<>>
    ELSE LET w == i + 1 + Len(name)
             q == SkipWs(s, w)
             c == FindIn(s, q + 1, {"\""})
         IN IF q > w /\ At(s, q) = "\"" /\ c > q + 1 /\ At(s, c) = "\""
               /\ At(s, c + 1) = "]"
            THEN SubSeq(s, q + 1, c - 1)
            ELSE <<>>

\* s.match(/\[<name>\s+"([^"]+)"\]/i): the value captured by the first match
RECURSIVE FirstTagValue(_, _, _)
FirstTagValue(s, i, name) ==
    IF i > Len(s) THEN <<>>
    ELSE IF TagValueAt(s, i, name) # <<>> THEN TagValueAt(s, i, name)
    ELSE FirstTagValue(s, i + 1, name)

\* s.match(/\[SetUp\s+"1"\]/i) is not null
RECURSIVE HasSetupTag(_, _)
HasSetupTag(s, i) ==
    /\ i <= Len(s)
    /\ \/ TagValueAt(s, i, <<"s", "e", "t", "u", "p">>) = <<"1">>
       \/ HasSetupTag(s, i + 1)

\* end of the trailing \s*$ of the header pattern after a "]" at q: the index
\* after the match, 0 when no line end can be reached
HeaderTailEnd(s, q) ==
    LET r == SkipWs(s, q + 1)
        nl == {k \in (q + 1)..(r - 1) : IsLineTerminator(s[k])}
    IN IF r > Len(s) THEN Len(s) + 1
       ELSE IF nl = {} THEN 0
       ELSE CHOOSE k \in nl : \A j \in nl : j <= k

\* the lazy .*?\] of the header pattern from index q on: the index after the
\* whole match, 0 when there is none on this line
RECURSIVE HeaderBodyEnd(_, _)
HeaderBodyEnd(s, q) ==
    IF q > Len(s) \/ IsLineTerminator(s[q]) THEN 0
    ELSE IF s[q] = "]" /\ HeaderTailEnd(s, q) # 0 THEN HeaderTailEnd(s, q)
    ELSE HeaderBodyEnd(s, q + 1)

\* the match of /^\s*\[.*?\]\s*$/m at index i: the index after it, 0 if none
HeaderMatchEnd(s, i) ==
    LET a == SkipWs(s, i) IN
    IF (i = 1 \/ IsLineTerminator(s[i - 1])) /\ At(s, a) = "["
    THEN HeaderBodyEnd(s, a + 1)
    ELSE 0

\* s.replace(/^\s*\[.*?\]\s*$/gm, " ")
RECURSIVE StripHeaders(_, _)
StripHeaders(s, i) ==
    IF i > Len(s) THEN <<>>
    ELSE IF HeaderMatchEnd(s, i) # 0
         THEN <<" ">> \o StripHeaders(s, HeaderMatchEnd(s, i))
         ELSE <<s[i]>> \o StripHeaders(s, i + 1)

\* s.replace(/\{[^}]*\}/g, " ")
RECURSIVE StripBraces(_, _)
StripBraces(s, i) ==
    IF i > Len(s) THEN <<>>
    ELSE IF s[i] = "{" /\ FindIn(s, i + 1, {"}"}) <= Len(s)
         THEN <<" ">> \o StripBraces(s, FindIn(s, i + 1, {"}"}) + 1)
         ELSE <<s[i]>> \o StripBraces(s, i + 1)

\* s.replace(/;[^\n]*/g, " ")
RECURSIVE StripLineComments(_, _)
StripLineComments(s, i) ==
    IF i > Len(s) THEN <<>>
    ELSE IF s[i] = ";"
         THEN <<" ">> \o StripLineComments(s, FindIn(s, i + 1, {"\n"}))
         ELSE <<s[i]>> \o StripLineComments(s, i + 1)

\* a pass that puts two spaces in the place of a block
RECURSIVE StripParenPassWide(_, _)
StripParenPassWide(s, i) ==
    IF i > Len(s) THEN <<>>
    ELSE IF s[i] = "(" /\ At(s, FindIn(s, i + 1, {"(", ")"})) = ")"
         THEN <<" ", " ">>
              \o StripParenPassWide(s, FindIn(s, i + 1, {"(", ")"}) + 1)
         ELSE <<s[i]>> \o StripParenPassWide(s, i + 1)

\* one pass of s.replace(/\([^()]*\)/g, " ")
RECURSIVE StripParenPass(_, _)
StripParenPass(s, i) ==
    IF i > Len(s) THEN <<>>
    ELSE IF s[i] = "(" /\ At(s, FindIn(s, i + 1, {"(", ")"})) = ")"
         THEN <<" ">> \o StripParenPass(s, FindIn(s, i + 1, {"(", ")"}) + 1)
         ELSE <<s[i]>> \o StripParenPass(s, i + 1)

\* a single pass instead of the loop
stripParenOnce(s) == StripParenPass(s, 1)

\* do { prev = s; s = pass(s) } while (s !== prev)
RECURSIVE stripParenBlocks(_)
stripParenBlocks(s) ==
    LET t == StripParenPass(s, 1) IN
    IF t = s THEN s ELSE stripParenBlocks(t)

\* s.replace(/\$\d+/g, " ")
RECURSIVE StripNags(_, _)
StripNags(s, i) ==
    IF i > Len(s) THEN <<>>
    ELSE IF s[i] = "$" /\ IsDigit(At(s, i + 1))
         THEN <<" ">> \o StripNags(s, SkipDigits(s, i + 1))
         ELSE <<s[i]>> \o StripNags(s, i + 1)

\* the replacement with /\d+\./, without the optional second run of periods
RECURSIVE StripMoveNumbersShort(_, _)
StripMoveNumbersShort(s, i) ==
    IF i > Len(s) THEN <<>>
    ELSE LET d == SkipDigits(s, i) IN
         IF IsDigit(s[i]) /\ At(s, d) = "."
         THEN <<" ">> \o StripMoveNumbersShort(s, d + 1)
         ELSE <<s[i]>> \o StripMoveNumbersShort(s, i + 1)

\* s.replace(/\d+\.(\.\.)?/g, " ")
RECURSIVE StripMoveNumbers(_, _)
StripMoveNumbers(s, i) ==
    IF i > Len(s) THEN <<>>
    ELSE LET d == SkipDigits(s, i) IN
         IF IsDigit(s[i]) /\ At(s, d) = "."
         THEN <<" ">> \o StripMoveNumbers(s,
                  IF At(s, d + 1) = "." /\ At(s, d + 2) = "." THEN d + 3 ELSE d + 1)
         ELSE <<s[i]>> \o StripMoveNumbers(s, i + 1)

\* \b at index i: exactly one of the characters before and at i is a word character
WordBoundary(s, i) == IsWordChar(At(s, i - 1)) # IsWordChar(At(s, i))

ResultMarkers ==
    << <<"1", "-", "0">>, <<"0", "-", "1">>,
       <<"1", "/", "2", "-", "1", "/", "2">>, <<"*">> >>

\* the match of /\b(1-0|0-1|1\/2-1\/2|\*)\b/ at index i: its length, 0 if none
ResultMatchLen(s, i) ==
    LET ok == {k \in 1..Len(ResultMarkers) :
                 /\ WordBoundary(s, i)
                 /\ i + Len(ResultMarkers[k]) - 1 <= Len(s)
                 /\ SubSeq(s, i, i + Len(ResultMarkers[k]) - 1) = ResultMarkers[k]
                 /\ WordBoundary(s, i + Len(ResultMarkers[k]))}
    IN IF ok = {} THEN 0
       ELSE Len(ResultMarkers[CHOOSE k \in ok : \A j \in ok : k <= j])

\* s.replace(/\b(1-0|0-1|1\/2-1\/2|\*)\b/g, " ")
RECURSIVE StripResults(_, _)
StripResults(s, i) ==
    IF i > Len(s) THEN <<>>
    ELSE IF ResultMatchLen(s, i) # 0
         THEN <<" ">> \o StripResults(s, i + ResultMatchLen(s, i))
         ELSE <<s[i]>> \o StripResults(s, i + 1)

\* s.replace(/[^\S\r\n]+/g, " ")
RECURSIVE CollapseHSpace(_, _)
CollapseHSpace(s, i) ==
    IF i > Len(s) THEN <<>>
    ELSE IF IsHSpace(s[i])
         THEN IF i > 1 /\ IsHSpace(s[i - 1]) THEN CollapseHSpace(s, i + 1)
              ELSE <<" ">> \o CollapseHSpace(s, i + 1)
         ELSE <<s[i]>> \o CollapseHSpace(s, i + 1)

\* s.trim()
RECURSIVE TrimEnd(_)
TrimEnd(s) ==
    IF Len(s) > 0 /\ IsSpace(s[Len(s)]) THEN TrimEnd(SubSeq(s, 1, Len(s) - 1)) ELSE s

Trim(s) == TrimEnd(SubSeq(s, SkipWs(s, 1), Len(s)))

\* Array.prototype.filter(Boolean) on an array of strings
FilterNonEmpty(a) == SelectSeq(a, LAMBDA t : t # <<>>)

\* the replacement taking the check and mate markers away too
StripAnnotationAndCheck(t) == DropTrailing(t, {"!", "?", "+", "#"})

\* t.replace(/[!?]+$/g, "")
StripAnnotation(t) == DropTrailing(t, {"!", "?"})

\* the text after every removal pass, before it is split
Sanitized(pgn) ==
    LET s0 == NormalizeNewlines(pgn, 1)
        s1 == StripHeaders(s0, 1)
        s2 == StripBraces(s1, 1)
        s3 == StripLineComments(s2, 1)
        s4 == stripParenBlocks(s3)
        s5 == StripNags(s4, 1)
        s6 == StripMoveNumbers(s5, 1)
        s7 == StripResults(s6, 1)
    IN Trim(CollapseHSpace(s7, 1))

\* startFen taken from the FEN tag alone
StartFenOfFenTag(pgn) == FirstTagValue(NormalizeNewlines(pgn, 1), 1, <<"f", "e", "n">>)

\* startFen: the FEN tag's value when a SetUp "1" tag is present too, else null
\* (the empty text)
StartFenOf(pgn) ==
    LET s0 == NormalizeNewlines(pgn, 1)
        fenTag == FirstTagValue(s0, 1, <<"f", "e", "n">>)
    IN IF fenTag # <<>> /\ HasSetupTag(s0, 1) THEN fenTag ELSE <<>>

sanitizeAndTokenizePgn(pgn) ==
    LET raw == FilterNonEmpty(SplitWs(Sanitized(pgn))) IN
    [tokens |-> [i \in 1..Len(raw) |-> StripAnnotation(raw[i])],
     startFen |-> StartFenOf(pgn)]

(***************************************************************************)
(* Inputs of the model.                                                    *)
(***************************************************************************)
\* new Chess().fen()
StartFen == Fen(NewChess)

\* the position after 1. e4 and the position after 1. e4 e5
FenAfterE4 == Fen(Played(NewChess, 1))

FenAfterE4E5 == Fen(Played(Played(NewChess, 1), 4))

\* TEST_FENS: the entries "Start" and "After 1. e4"; the other six hold
\* positions the move table of the model does not reach
TEST_FENS == {StartFen, FenAfterE4}

\* texts typed into the FEN field: a valid key with untidy white space and
\* a text that is no key
TypedFenLoose == <<" ", "E", " ", "b", " ", " ", "-", " ", "-", " ", "0", " ", "1">>

TypedFenBad == <<"x">>

FenFieldTexts == {TypedFenLoose, TypedFenBad}

\* values of the fen parameter of the page address (the empty text when absent)
UrlFens == {<<>>, FenAfterE4, TypedFenBad}

\* transcripts pasted into the PGN field or read from a file
PgnDecorated == <<"1", ".", " ", "e", "4", "+", " ", "e", "5">>

PgnIllegalThird == <<"1", ".", " ", "e", "4", " ", "e", "5", " ", "2", ".", " ", "Q", "h", "8">>

PgnFromFen == <<"[", "F", "E", "N", " ", "\"", "E", " ", "b", " ", "-", " ", "-", " ", "0", " ", "1", "\"", "]", "\n", "[", "S", "e", "t", "U", "p", " ", "\"", "1", "\"", "]", "\n", "1", ".", ".", ".", " ", "e", "5", " ", "2", ".", " ", "d", "4">>

Transcripts == {PgnDecorated, PgnIllegalThird, PgnFromFen}

\* the texts importPgn is handed: a transcript, or the empty text of a PGN
\* field left alone
PgnTexts == Transcripts \cup {<<>>}

\* squares a piece is dragged between in src/src/App.jsx
Drops ==
    { [from |-> "e2", to |-> "e4"], [from |-> "d2", to |-> "d4"],
      [from |-> "e7", to |-> "e5"], [from |-> "e2", to |-> "e5"] }

\* squares a piece is dragged between on the board of part_002 (to = "" is a
\* drop outside the board)
BoardDrops ==
    { [from |-> "e2", to |-> "e4"], [from |-> "e2", to |-> "e5"],
      [from |-> "e2", to |-> ""] }

\* squares clicked on the board of part_002
ClickSquares == {"e2", "e4"}

(***************************************************************************)
(* Sessions.  What happens on the page is bounded by what its user has at  *)
(* hand: the transcripts pasted into the PGN field (pasted), the files     *)
(* picked (files), the texts typed into the FEN field (typed), the entries *)
(* "Random FEN" comes up with (picks), the drags on the board (drops), the *)
(* squares clicked (squares) and the fen parameter of the address the page *)
(* is opened with (urls).  A session fixes these sets and nothing else:    *)
(* the handlers are those of the code, taken in any order and any number   *)
(* of times.                                                               *)
(***************************************************************************)
Session(pasted, files, typed, picks, drops, squares, urls) ==
    [pasted |-> pasted, files |-> files, typed |-> typed, picks |-> picks,
     drops |-> drops, squares |-> squares, urls |-> urls]

\* src/src/App.jsx, which imports no transcript
AppSession ==
    Session({}, {}, FenFieldTexts, TEST_FENS, Drops, {}, UrlFens)

\* part_002 opened with or without a position in its address, positions
\* typed into the FEN field or picked by "Random FEN"
FenSession ==
    Session({}, {}, FenFieldTexts, TEST_FENS, {}, {}, UrlFens)

\* part_002, the board played on by drag and by click
BoardSession ==
    Session({}, {}, {}, {}, BoardDrops, ClickSquares, {<<>>})

\* part_002, the transcripts pasted into the PGN field
PasteSession ==
    Session(Transcripts, {}, {}, {}, {}, {}, {<<>>})

\* part_002, a pasted game and a drag on the board
PasteBoardSession ==
    Session({PgnDecorated}, {}, {}, {}, {[from |-> "e2", to |-> "e4"]}, {},
            {<<>>})

\* part_002 opened with or without a position in its address, a file with an
\* illegal token picked around the import of a pasted game
FileSession ==
    Session({PgnDecorated}, {PgnIllegalThird}, {}, {}, {}, {},
            {<<>>, FenAfterE4})

\* part_002, that file picked while the board is played on
BoardFileSession ==
    Session({}, {PgnIllegalThird}, {}, {}, {[from |-> "e2", to |-> "e4"]},
            {"e2"}, {<<>>})

\* part_002, a file whose tokens all apply picked around the import of a
\* game from another base position
OtherBaseFileSession ==
    Session({PgnFromFen}, {PgnDecorated}, {}, {}, {}, {}, {<<>>})

\* the sessions of part_002
PgnSessions ==
    {FenSession, BoardSession, PasteSession, PasteBoardSession, FileSession,
     BoardFileSession, OtherBaseFileSession}

\* src/src/App.jsx with jumpToPly called directly: one drag, one text of the
\* FEN field, one entry of TEST_FENS, and the address with or without a
\* position
ApiSession ==
    Session({}, {}, {TypedFenLoose}, {FenAfterE4}, {[from |-> "e2", to |-> "e4"]},
            {}, {<<>>, FenAfterE4})

\* no input of the page: the functions called on their own take their
\* arguments from the initial state
NoSession == Session({}, {}, {}, {}, {}, {}, {<<>>})

\* whiteMatch ? whiteMatch[1] : "White", with text.match(/\[White\s+"([^"]+)"\]/i)
whiteNameOf(text) ==
    LET whiteMatch == FirstTagValue(text, 1, <<"w", "h", "i", "t", "e">>)
    IN IF whiteMatch # <<>> THEN whiteMatch ELSE <<"W", "h", "i", "t", "e">>

\* the name of White of the transcripts, computed once
WhiteNames == [t \in PgnTexts |-> whiteNameOf(t)]

\* sanitizeAndTokenizePgn on the transcripts, computed once
Tokenized == [t \in PgnTexts |-> sanitizeAndTokenizePgn(t)]

(***************************************************************************)
(* State.  Presentation state (orientation, sizes, square styles, the name *)
(* of the last load) is not part of it.  The two text fields are: loadFen  *)
(* reads fenText and importPgn is handed pgnText, as the last render holds *)
(* them.                                                                   *)
(***************************************************************************)
VARIABLES
    build,          \* "app" (src/src/App.jsx) or "pgn" (src/unnamed/part_002)
    rejects,        \* how ch.move signals an illegal move: "null" or "throw"
    session,        \* the inputs the user has at hand
    baseFen,        \* base position key
    game,           \* Chess object of the displayed position
    lastMove,       \* {from, to}, NoMove for null
    moves,          \* history: notations since baseFen
    currentPly,     \* cursor
    pgnError,       \* the import error shown: failing index and token, or
                    \* the text of a read that failed
    fenError,       \* the error line under the FEN field, "" if none
    whiteName,      \* part_002: the name shown for White, "" before any import
    chessRef,       \* part_002: Chess object behind the board widget
    chessPosition,  \* part_002: key handed to the board widget
    moveFrom,       \* part_002: square selected by click-to-move, "" if none
    fenText,        \* content of the FEN field: the key of the position last
                    \* set by a handler, or what was typed since
    pgnText,        \* part_002: content of the PGN field, written by typing
                    \* only
    keyEnv,         \* part_002: baseFen, moves and currentPly captured by the
                    \* keydown listener
    reader,         \* part_002: the file reads in flight, each with its text
                    \* and the baseFen its onload captured; any number of
                    \* reads of one text started from one baseFen are one
                    \* element
    queue,          \* what React holds between a callback and the render it
                    \* asked for: whether the effects of the first render
                    \* have run (mounted) and the fen parameter they will
                    \* read (url), the effects of a later render that have
                    \* not run yet (fx), the state updates queued outside a
                    \* handler that no render has applied yet (upd), and the
                    \* last callback that queued one (op)
    op              \* the last handler that ran: its kind ("mount", "load",
                    \* "jump", "key", "click", "stay", "move", "undo", "import", "file",
                    \* "onload", "effects", "effect"), its
                    \* argument, whether it took effect, and the number of
                    \* history entries a recorded move discarded

vars ==
    <<build, rejects, session, baseFen, game, lastMove, moves, currentPly,
      pgnError, fenError, whiteName, chessRef, chessPosition, moveFrom, fenText,
      pgnText, keyEnv, reader, queue, op>>

NoMove == [from |-> "", to |-> ""]

NoPgnError == [index |-> 0, tok |-> <<>>]

\* setPgnError("Failed to read file.")
ReadFailed == [index |-> 0, tok |-> <<>>, text |-> "Failed to read file."]

\* e?.message of the exception the constructor throws for a text that is no
\* key: the wording is the rules authority's; "" is an exception without a
\* message
ThrownMessages ==
    {"", "Invalid FEN: must contain six space-delimited fields"}

\* validateFen(fen).error: e?.message || "Invalid FEN"
validateFenError(message) == IF message = "" THEN "Invalid FEN" ELSE message

\* chk.error || "Invalid FEN."
InvalidFenText(error) == IF error = "" THEN "Invalid FEN." ELSE error

Done(name, arg, ok) == [name |-> name, arg |-> arg, ok |-> ok, cut |-> 0]

Max(a, b) == IF a > b THEN a ELSE b

\* mv.slice(0, k)
Slice(mv, k) ==
    IF k < 0 THEN SubSeq(mv, 1, Max(Len(mv) + k, 0))
    ELSE SubSeq(mv, 1, IF k < Len(mv) THEN k ELSE Len(mv))

Min(a, b) == IF a < b THEN a ELSE b

\* a Chess object as the state keeps it: of game and chessRef only fen(),
\* moves(), get() and move() are used, never history(), so the list of the
\* moves made on the object is not kept
Kept(ch) == [ch EXCEPT !.hist = <<>>]

\* the {from, to} of the last move made on a Chess object, null if none
LastMoveOf(ch) ==
    IF Len(ch.hist) > 0
    THEN [from |-> ch.hist[Len(ch.hist)].from, to |-> ch.hist[Len(ch.hist)].to]
    ELSE NoMove

\* ch.move(tok) with a move() that returns null on an illegal move: the object
\* is left as it is
Moved(ch, tok) ==
    CHOOSE next \in {IF SanMoveId(c, tok) = 0 THEN c
                      ELSE Played(c, SanMoveId(c, tok)) : c \in {ch}} : TRUE

\* for (i = 0; i < n; i++) ch.move(mv[i]), the loop going on after an illegal
\* move
RECURSIVE Replay(_, _, _, _)
Replay(ch, mv, i, n) ==
    IF i > n THEN ch ELSE Replay(Moved(ch, mv[i]), mv, i + 1, n)

\* whether that loop meets an illegal move
RECURSIVE ReplayRejected(_, _, _, _)
ReplayRejected(ch, mv, i, n) ==
    /\ i <= n
    /\ \E c \in {ch} :
           \/ SanMoveId(c, mv[i]) = 0
           \/ ReplayRejected(Played(c, SanMoveId(c, mv[i])), mv, i + 1, n)

\* positionAtPly replaying the whole history, whatever the ply
positionAtPlyWhole(base, mv, ply) ==
    CHOOSE p \in
        {[ch |-> ch, lm |-> LastMoveOf(ch),
          threw |-> /\ rejects = "throw"
                    /\ ReplayRejected(LoadChess(base), mv, 1, Len(mv))] :
         ch \in {Replay(LoadChess(base), mv, 1, Len(mv))}} : TRUE

\* positionAtPly(ply) in a closure holding base and mv; threw: a move() that
\* throws met an illegal move
positionAtPly(base, mv, ply) ==
    CHOOSE p \in
        {[ch |-> ch, lm |-> LastMoveOf(ch),
          threw |-> /\ rejects = "throw"
                    /\ ReplayRejected(LoadChess(base), mv, 1, Min(ply, Len(mv)))] :
         ch \in {Replay(LoadChess(base), mv, 1, Min(ply, Len(mv)))}} : TRUE

\* effect on [baseFen], run after a render whose base key is base, or not
\* run, ref being the object behind the board: the object is replaced at
\* once (ref), the setters of chessPosition and moveFrom are called outside
\* a handler (upd)
SyncEffect(run, base, ref) ==
    IF run
    THEN [ref |-> LoadChess(base),
          upd |-> [x \in {"chessPosition", "moveFrom"} |->
                      IF x = "chessPosition" THEN base ELSE ""]]
    ELSE [ref |-> ref, upd |-> [x \in {} |-> 0]]

\* effect on [currentPly, moves.length]: the keydown listener is registered
\* anew, with the closures of the render the effect runs after
KeyEffect(base, mv, ply) ==
    [baseFen |-> base, moves |-> mv, currentPly |-> ply]

(***************************************************************************)
(* State updates queued outside a handler.  The effects and the callbacks  *)
(* of a FileReader call the state setters outside any event handler: React *)
(* queues the updates and renders them later.  The effects of a render     *)
(* that no event asked for run later than the render as well.  A handler   *)
(* that runs in between is the one of the last render made and reads the   *)
(* state of that render; when it has called a setter, the effects still    *)
(* waiting run as it returns, then its own updates are rendered and the    *)
(* effects of that render run.  The render of the queue then applies the   *)
(* queued updates in the order they were made, so of two values set for    *)
(* one state the later stands.                                             *)
(***************************************************************************)
\* a set of updates: the values set, by the name of the state they set
Upd(rec) == [x \in DOMAIN rec |-> rec[x]]

NoUpdates == [x \in {} |-> 0]

\* the updates of upd followed by the updates of later
Merged(upd, later) ==
    [x \in DOMAIN upd \cup DOMAIN later |->
        IF x \in DOMAIN later THEN later[x] ELSE upd[x]]

\* the updates of upd that no later setter call of the names in S replaces
Without(upd, S) == [x \in DOMAIN upd \ S |-> upd[x]]

\* the value of state x after the updates
After(upd, x, old) == IF x \in DOMAIN upd THEN upd[x] ELSE old

NoOp == [name |-> "none", arg |-> <<>>, ok |-> FALSE, cut |-> 0]

\* no effect of a later render waiting
NoFx == [sync |-> FALSE, key |-> FALSE]

\* nothing queued, every effect done
Settled ==
    [mounted |-> TRUE, url |-> <<>>, upd |-> NoUpdates, op |-> NoOp,
     fx |-> NoFx]

\* the effects of the last render that have not run yet: all of them after
\* the first render, after a later one those whose dependencies it changed
PendingSync == build = "pgn" /\ (~queue.mounted \/ queue.fx.sync)

PendingKey == build = "pgn" /\ (~queue.mounted \/ queue.fx.key)

PendingEffects == ~queue.mounted \/ queue.fx.sync \/ queue.fx.key

\* the fen parameters of the page address as the effect of the mount reads
\* them, computed once: whether there is one that the constructor accepts
\* (an exception is swallowed), and the object constructed
UrlGame ==
    [qfen \in UrlFens |->
        IF qfen # <<>> /\ ValidFen(qfen)
        THEN CHOOSE g \in {[url |-> qfen, loaded |-> TRUE, next |-> next,
                             fen |-> Fen(next)] :
                            next \in {LoadChess(qfen)}} : TRUE
        ELSE [url |-> qfen, loaded |-> FALSE, next |-> NewChess, fen |-> <<>>]]

\* the setter calls of the effect of the mount, g being what it read
MountUpdates(g) ==
    IF g.loaded
    THEN Upd([baseFen |-> g.fen, game |-> g.next, fenText |-> g.fen,
              moves |-> <<>>, currentPly |-> 0, lastMove |-> NoMove,
              fenError |-> ""])
    ELSE NoUpdates

\* what the effect of the mount was: ok when it met no exception
MountOp(g) == Done("mount", g.url, g.url = <<>> \/ g.loaded)

\* the render of the updates an effect on [baseFen] queued for the key base
EffectOp(base) == Done("effect", base, TRUE)

\* the queued updates without those of chessPosition and moveFrom that set
\* the value the state has (cp, mf): they change nothing when rendered
Lasting(upd, cp, mf) ==
    [x \in {y \in DOMAIN upd : /\ (y = "chessPosition" => upd[y] # cp)
                                /\ (y = "moveFrom" => upd[y] # mf)} |-> upd[x]]

\* the queue once the effects that were waiting have run: kept are the
\* updates queued before and still standing, keptOp the callback that queued
\* them; the effect of the mount runs if it has not; sync are the updates
\* the effect on [baseFen] queued, if it ran, base being the key it read; cp
\* and mf are the rendered chessPosition and moveFrom
Flushed(kept, keptOp, sync, base, cp, mf) ==
    CHOOSE q \in UNION {
        {IF DOMAIN upd = {} THEN Settled
         ELSE [mounted |-> TRUE, url |-> <<>>, upd |-> upd, fx |-> NoFx,
               op |-> IF ~queue.mounted /\ g.loaded THEN MountOp(g)
                      ELSE IF DOMAIN kept \ {"chessPosition", "moveFrom"} # {}
                      THEN keptOp
                      ELSE EffectOp(base)] :
         upd \in {Lasting(Merged(Merged(kept,
                                        IF queue.mounted THEN NoUpdates
                                        ELSE MountUpdates(g)),
                                 sync),
                          cp, mf)}} :
        g \in {UrlGame[queue.url]}} : TRUE

\* an event handler that has called a setter, its body leaving ref in
\* chessRef: the effects still waiting run with the closure of the last
\* render, the updates of the handler are rendered, and the effects whose
\* dependencies that render changed run; kept are the queued updates the
\* handler did not replace
RenderedWith(kept, ref) ==
    LET ownSync == build = "pgn" /\ baseFen' # baseFen
        ownKey == /\ build = "pgn"
                  /\ (currentPly' # currentPly \/ Len(moves') # Len(moves))
        eff == SyncEffect(ownSync \/ PendingSync,
                          IF ownSync THEN baseFen' ELSE baseFen, ref)
    IN /\ chessRef' = eff.ref
       /\ keyEnv' = IF ownKey THEN KeyEffect(baseFen', moves', currentPly')
                    ELSE IF PendingKey
                    THEN KeyEffect(baseFen, moves, currentPly)
                    ELSE keyEnv
       /\ queue' = Flushed(kept, queue.op, eff.upd,
                           IF ownSync THEN baseFen' ELSE baseFen,
                           chessPosition', moveFrom')

\* an event handler of the board that calls the setters of the states named
\* in S
HandledBoard(S, ref) == RenderedWith(Without(queue.upd, S), ref)

\* an event handler that calls the setters of the states named in S and
\* leaves the board alone
Handled(S) == HandledBoard(S, chessRef)

\* an event handler that returns without a setter call: nothing is rendered,
\* no effect runs
Returned == UNCHANGED <<chessRef, keyEnv, queue>>

\* a render: the updates applied
Commit(upd) ==
    /\ baseFen' = After(upd, "baseFen", baseFen)
    /\ game' = After(upd, "game", game)
    /\ moves' = After(upd, "moves", moves)
    /\ currentPly' = After(upd, "currentPly", currentPly)
    /\ lastMove' = After(upd, "lastMove", lastMove)
    /\ pgnError' = After(upd, "pgnError", pgnError)
    /\ fenError' = After(upd, "fenError", fenError)
    /\ whiteName' = After(upd, "whiteName", whiteName)
    /\ chessPosition' = After(upd, "chessPosition", chessPosition)
    /\ moveFrom' = After(upd, "moveFrom", moveFrom)
    /\ fenText' = After(upd, "fenText", fenText)
    /\ pgnText' = pgnText

\* a callback outside a handler that calls the setters, q being the queue it
\* finds: the updates wait for their render, o being what the callback was
Enqueue(q, upd, o) ==
    /\ queue' = [q EXCEPT !.upd = Merged(@, upd),
                          !.op = IF DOMAIN upd = {} THEN @ ELSE o]
    /\ op' = IF DOMAIN upd = {} THEN o ELSE [o EXCEPT !.name = "queued"]
    /\ UNCHANGED <<baseFen, game, moves, currentPly, lastMove, pgnError,
                   fenError, whiteName, chessRef, chessPosition, moveFrom,
                   fenText, pgnText, keyEnv>>

\* the render of the queued updates, made once the effects of the render
\* before it have run; its own effects run later
renderQueued ==
    /\ ~PendingEffects
    /\ DOMAIN queue.upd # {}
    /\ Commit(queue.upd)
    /\ queue' = [Settled EXCEPT
                    !.fx = [sync |-> build = "pgn" /\ baseFen' # baseFen,
                            key |-> /\ build = "pgn"
                                    /\ (currentPly' # currentPly
                                        \/ Len(moves') # Len(moves))]]
    /\ op' = queue.op
    /\ UNCHANGED <<build, rejects, session, reader, chessRef, keyEnv>>

\* the effects that are waiting run
RunEffects ==
    /\ \E eff \in {SyncEffect(PendingSync, baseFen, chessRef)} :
           /\ chessRef' = eff.ref
           /\ queue' = Flushed(queue.upd, queue.op, eff.upd, baseFen,
                               chessPosition, moveFrom)
    /\ keyEnv' = IF PendingKey THEN KeyEffect(baseFen, moves, currentPly)
                 ELSE keyEnv
    /\ UNCHANGED <<build, rejects, session, baseFen, game, moves, currentPly, lastMove,
                   pgnError, fenError, whiteName, chessPosition, moveFrom,
                   fenText, pgnText, reader>>

\* the effects of a render of queued updates
passiveEffects ==
    /\ queue.mounted
    /\ PendingEffects
    /\ RunEffects
    /\ op' = Done("effects", baseFen, TRUE)

(***************************************************************************)
(* Initial state: the first render of the component, before its effects    *)
(* have run.                                                               *)
(***************************************************************************)
FirstRender(b, S) ==
    /\ build = b
    /\ rejects \in {"null", "throw"}
    /\ session \in S
    /\ \E qfen \in session.urls :
           queue = [mounted |-> FALSE, url |-> qfen, upd |-> NoUpdates,
                    op |-> NoOp, fx |-> NoFx]
    /\ baseFen = StartFen
    /\ game = NewChess
    /\ chessRef = NewChess
    /\ chessPosition = IF build = "pgn" THEN StartFen ELSE <<>>
    /\ op = Done("render", <<>>, TRUE)
    /\ moves = <<>>
    /\ currentPly = 0
    /\ lastMove = NoMove
    /\ pgnError = NoPgnError
    /\ fenError = ""
    /\ whiteName = <<>>
    /\ moveFrom = ""
    /\ fenText = StartFen
    /\ pgnText = <<>>
    /\ keyEnv = KeyEffect(IF build = "pgn" THEN StartFen ELSE <<>>, <<>>, 0)
    /\ reader = {}

\* the effects of the first render: the effect that reads the page address
\* and, in part_002, the effects on [currentPly, moves.length] and on
\* [baseFen]
mountEffect ==
    /\ ~queue.mounted
    /\ RunEffects
    /\ \E g \in {UrlGame[queue.url]} :
           op' = IF g.loaded THEN [MountOp(g) EXCEPT !.name = "queued"]
                 ELSE MountOp(g)

(***************************************************************************)
(* Navigation.                                                             *)
(***************************************************************************)
\* jumpToPly(ply) in a closure holding base and mv
jumpToPly(base, mv, ply, name) ==
    \E p \in {positionAtPly(base, mv, ply)} :
        /\ UNCHANGED <<build, rejects, session, baseFen, moves, pgnError, fenError,
                       whiteName, chessPosition, moveFrom, pgnText, reader>>
        /\ op' = Done(name, ply, ~p.threw)
        /\ IF p.threw
           THEN UNCHANGED <<game, fenText, currentPly, lastMove>> /\ Returned
           ELSE /\ game' = Kept(p.ch)
                /\ fenText' = Fen(p.ch)
                /\ currentPly' = ply
                /\ lastMove' = p.lm
                /\ Handled({"game", "fenText", "currentPly", "lastMove"})

canBack == currentPly > 0

canForward == currentPly < Len(moves)

stepBack == canBack /\ jumpToPly(baseFen, moves, currentPly - 1, "jump")

stepForward == canForward /\ jumpToPly(baseFen, moves, currentPly + 1, "jump")

goLatest == canForward /\ jumpToPly(baseFen, moves, Len(moves), "jump")

goStart == build = "pgn" /\ currentPly # 0 /\ jumpToPly(baseFen, moves, 0, "jump")

\* mv[i] with the indices of the source (from 0), undefined (the empty text)
\* past the end
ElemAt(mv, i) == IF i < Len(mv) THEN mv[i + 1] ELSE <<>>

\* the pairs without the filter: the last one holds undefined for a missing
\* second move
RECURSIVE pairsUnfiltered(_, _)
pairsUnfiltered(mv, i) ==
    IF i >= Len(mv) THEN <<>>
    ELSE << <<ElemAt(mv, i), ElemAt(mv, i + 1)>> >> \o pairsUnfiltered(mv, i + 2)

\* for (let i = 0; i < moves.length; i += 2)
\*     pairs.push([moves[i], moves[i + 1]].filter(Boolean))
RECURSIVE pairsFrom(_, _)
pairsFrom(mv, i) ==
    IF i >= Len(mv) THEN <<>>
    ELSE << FilterNonEmpty(<<ElemAt(mv, i), ElemAt(mv, i + 1)>>) >>
         \o pairsFrom(mv, i + 2)

\* the move list of the render; pairs[idx] of the source is pairs[idx + 1]
pairs == pairsFrom(moves, 0)

(***************************************************************************)
(* Number values.  A number of the language is an IEEE double; the ones    *)
(* met here are NaN and the integral ones: a sign with an infinite         *)
(* magnitude, or with a magnitude written as its decimal digits, most      *)
(* significant first, <<0>> for zero.  The digits are kept because the     *)
(* magnitudes a double takes exceed the integers of the model checker.     *)
(***************************************************************************)
NaN == [nan |-> TRUE, inf |-> FALSE, neg |-> FALSE, mag |-> <<0>>]

Infinite(neg) == [nan |-> FALSE, inf |-> TRUE, neg |-> neg, mag |-> <<0>>]

Finite(neg, mag) == [nan |-> FALSE, inf |-> FALSE, neg |-> neg, mag |-> mag]

\* digits without leading zeros
Canon(d) ==
    IF \A i \in 1..Len(d) : d[i] = 0 THEN <<0>>
    ELSE SubSeq(d, CHOOSE i \in 1..Len(d) :
                       d[i] # 0 /\ \A j \in 1..(i - 1) : d[j] = 0,
                Len(d))

\* the decimal digits of a natural number
RECURSIVE NatDigits(_)
NatDigits(n) == IF n < 10 THEN <<n>> ELSE NatDigits(n \div 10) \o <<n % 10>>

\* the number literal n
Num(n) == Finite(FALSE, NatDigits(n))

\* the k-th digit from the right, 0 past the first digit
DigitFromRight(d, k) == IF k >= 1 /\ k <= Len(d) THEN d[Len(d) + 1 - k] ELSE 0

\* whether a + b carries into the k-th digit from the right: some digit
\* below it carries and every digit between passes the carry on
Carried(a, b, k) ==
    \E j \in 1..(k - 1) :
        /\ DigitFromRight(a, j) + DigitFromRight(b, j) >= 10
        /\ \A m \in (j + 1)..(k - 1) :
               DigitFromRight(a, m) + DigitFromRight(b, m) = 9

\* a + b on decimal digits
Sum(a, b) ==
    LET n == (IF Len(a) > Len(b) THEN Len(a) ELSE Len(b)) + 1
    IN Canon(<<>> \o [i \in 1..n |->
                         (DigitFromRight(a, n + 1 - i) + DigitFromRight(b, n + 1 - i)
                          + (IF Carried(a, b, n + 1 - i) THEN 1 ELSE 0)) % 10])

\* whether a - b borrows from the k-th digit from the right
Borrowed(a, b, k) ==
    \E j \in 1..(k - 1) :
        /\ DigitFromRight(a, j) < DigitFromRight(b, j)
        /\ \A m \in (j + 1)..(k - 1) :
               DigitFromRight(a, m) = DigitFromRight(b, m)

\* a - b on decimal digits for a >= b
Difference(a, b) ==
    Canon(<<>> \o [i \in 1..Len(a) |->
                      (DigitFromRight(a, Len(a) + 1 - i)
                       - DigitFromRight(b, Len(a) + 1 - i)
                       - (IF Borrowed(a, b, Len(a) + 1 - i) THEN 1 ELSE 0) + 10) % 10])

\* a > b on digits without leading zeros
Greater(a, b) ==
    \/ Len(a) > Len(b)
    \/ /\ Len(a) = Len(b)
       /\ \E i \in 1..Len(a) :
              a[i] > b[i] /\ \A j \in 1..(i - 1) : a[j] = b[j]

\* d \div 2 on decimal digits: what a digit leaves over is 1 when it is odd
Half(d) ==
    Canon(<<>> \o [i \in 1..Len(d) |->
                      (10 * (IF i > 1 THEN d[i - 1] % 2 ELSE 0) + d[i]) \div 2])

\* 2 * d + bit on decimal digits: a digit carries 1 when it is 5 or more
Twice(d, bit) ==
    (IF d[1] >= 5 THEN <<1>> ELSE <<>>)
    \o [i \in 1..Len(d) |->
           (2 * d[i] + (IF i = Len(d) THEN bit
                        ELSE IF d[i + 1] >= 5 THEN 1 ELSE 0)) % 10]

\* k halvings of s.d, each putting the binary digit it takes off after
\* s.bits, none once s.d is zero; the first half of the steps is made
\* before the second, which keeps the nesting at the logarithm of k
RECURSIVE Halvings(_, _)
Halvings(s, k) ==
    IF k = 0 \/ s.d = <<0>> THEN s
    ELSE IF k = 1
    THEN [d |-> Half(s.d), bits |-> Append(s.bits, s.d[Len(s.d)] % 2)]
    ELSE CHOOSE r \in {Halvings(h, k - k \div 2) :
                       h \in {Halvings(s, k \div 2)}} : TRUE

\* the binary digits of a magnitude, least significant first, none for zero:
\* a number of n decimal digits is below 2^(4n)
BitsOf(d) == Halvings([d |-> d, bits |-> <<>>], 4 * Len(d)).bits

\* k doublings of s.acc, each taking in the binary digit b[s.i] and going
\* one digit down
RECURSIVE Doublings(_, _, _)
Doublings(b, s, k) ==
    IF k = 0 THEN s
    ELSE IF k = 1 THEN [i |-> s.i - 1, acc |-> Twice(s.acc, b[s.i])]
    ELSE CHOOSE r \in {Doublings(b, h, k - k \div 2) :
                       h \in {Doublings(b, s, k \div 2)}} : TRUE

\* the magnitude whose binary digits are b, least significant first
MagnitudeOf(b) == Doublings(b, [i |-> Len(b), acc |-> <<0>>], Len(b)).acc

\* b + 1 on binary digits
Incremented(b) ==
    IF \A i \in 1..Len(b) : b[i] = 1 THEN [i \in 1..Len(b) |-> 0] \o <<1>>
    ELSE LET z == CHOOSE i \in 1..Len(b) :
                      b[i] = 0 /\ \A j \in 1..(i - 1) : b[j] = 1
         IN <<>> \o [i \in 1..Len(b) |->
                        IF i < z THEN 0 ELSE IF i = z THEN 1 ELSE b[i]]

\* binary digits of the significand of a double
SignificandBits == 53

\* binary digits of the largest finite double, (2^53 - 1) * 2^971
LargestBits == 1024

\* the binary digits rounded to a significand: the nearest, the even one of
\* two that are equally near
RoundedBits(b) ==
    IF Len(b) <= SignificandBits THEN b
    ELSE LET low == Len(b) - SignificandBits
             kept == SubSeq(b, low + 1, Len(b))
             up == /\ b[low] = 1
                   /\ (kept[1] = 1 \/ \E j \in 1..(low - 1) : b[j] = 1)
         IN [j \in 1..low |-> 0] \o (IF up THEN Incremented(kept) ELSE kept)

\* the double nearest to the integer with the sign and the decimal digits,
\* infinite past the largest finite one
ToDouble(neg, d) ==
    LET b == RoundedBits(BitsOf(d))
    IN IF Len(b) > LargestBits THEN Infinite(neg)
       ELSE Finite(neg, MagnitudeOf(b))

\* first index >= i of s whose character is not of the class, Len(s) + 1
\* if none
PastRun(Of(_), s, i) ==
    CHOOSE k \in i..(Len(s) + 1) :
        (k > Len(s) \/ ~Of(s[k])) /\ \A j \in i..(k - 1) : Of(s[j])

\* parseInt(t, 10): white space is skipped, a sign is read, then the digits
\* that follow, whatever stands after them; NaN when no digit follows, else
\* the double nearest to the integer the digits denote (with more than 20
\* digits the language lets an engine approximate; the engines round)
parseInt(t) ==
    LET a == PastRun(IsSpace, t, 1)
        signed == At(t, a) \in {"-", "+"}
        b == IF signed THEN a + 1 ELSE a
        c == PastRun(IsDigit, t, b)
    IN IF c = b THEN NaN
       ELSE ToDouble(At(t, a) = "-",
                     Canon(<<>> \o [i \in 1..(c - b) |-> DigitVal(t[b + i - 1])]))

\* x || 1 for the value of parseInt: NaN, 0 and -0 are falsy
OrOne(n) == IF n.nan \/ (~n.inf /\ n.mag = <<0>>) THEN Num(1) ELSE n

\* the indices of the spaces of s
Spaces(s) == {i \in 1..Len(s) : s[i] = " "}

\* the index of the k-th space of s, Len(s) + 1 when s has fewer
SpaceAt(s, k) ==
    IF Cardinality(Spaces(s)) < k THEN Len(s) + 1
    ELSE CHOOSE i \in Spaces(s) : Cardinality({j \in Spaces(s) : j < i}) = k - 1

\* parseInt(fen.split(" ")[5] || "1", 10) || 1 : the sixth field stands
\* between the fifth space and the sixth; it is undefined with fewer than
\* five spaces, and undefined and "" are falsy
baseFullmoveOf(fen) ==
    LET six == SubSeq(fen, SpaceAt(fen, 5) + 1, SpaceAt(fen, 6) - 1)
        field == IF Cardinality(Spaces(fen)) >= 5 /\ six # <<>> THEN six ELSE <<"1">>
    IN OrOne(parseInt(field))

\* the move number offset of the render
baseFullmove == baseFullmoveOf(baseFen)

\* n + idx for a number n that is not NaN and an index idx of an array: the
\* double nearest to the sum
Plus(n, idx) ==
    IF n.inf THEN n
    ELSE IF ~n.neg THEN ToDouble(FALSE, Sum(n.mag, NatDigits(idx)))
    ELSE IF Greater(n.mag, NatDigits(idx))
    THEN ToDouble(TRUE, Difference(n.mag, NatDigits(idx)))
    ELSE Finite(FALSE, Difference(NatDigits(idx), n.mag))

\* the number shown before pairs[idx]: const moveNo = baseFullmove + idx
moveNo(idx) == Plus(baseFullmove, idx)

\* a key or a click whose guard is false: the handler returns without a call
Stay(key) ==
    /\ op' = Done("stay", key, FALSE)
    /\ Returned
    /\ UNCHANGED <<build, rejects, session, baseFen, game, lastMove, moves, currentPly,
                   pgnError, fenError, whiteName, chessPosition, moveFrom,
                   fenText, pgnText, reader>>

\* pair[slot] of pairs[idx] in the render, undefined (the empty text) where
\* the pair has no such move
PairAt(idx, slot) ==
    IF idx < Len(pairs) /\ slot < Len(pairs[idx + 1])
    THEN pairs[idx + 1][slot + 1]
    ELSE <<>>

\* const whitePly = idx * 2; const blackPly = whitePly + 1
whitePly(idx) == idx * 2

blackPly(idx) == whitePly(idx) + 1

\* the cell drawn with the dark background
isWhiteActive(idx) == currentPly - 1 = whitePly(idx)

isBlackActive(idx) == currentPly - 1 = blackPly(idx)

\* the cells of the move list: slot 0 is the first span of a row, slot 1 the
\* second
MoveCells == (0..(Len(pairs) - 1)) \X (0..1)

ActiveCells ==
    {c \in MoveCells :
        IF c[2] = 0 THEN isWhiteActive(c[1]) ELSE isBlackActive(c[1])}

\* onClick of a cell: pair[0] && jumpToPly(whitePly + 1) for the first span,
\* pair[1] && jumpToPly(blackPly + 1) for the second
clickCell(idx, slot) ==
    IF PairAt(idx, slot) # <<>>
    THEN jumpToPly(baseFen, moves,
                   (IF slot = 0 THEN whitePly(idx) ELSE blackPly(idx)) + 1,
                   "click")
    ELSE Stay("click")

\* a click on a cell of the move list
moveClick == \E c \in MoveCells : clickCell(c[1], c[2])

\* the keydown listener, registered by an effect that runs with the effect of
\* the mount and again after a render that changed currentPly or
\* moves.length: its guards and jumpToPly are those of the render the effect
\* ran after
keyArrowLeft ==
    /\ build = "pgn"
    /\ queue.mounted
    /\ IF keyEnv.currentPly > 0
       THEN jumpToPly(keyEnv.baseFen, keyEnv.moves, keyEnv.currentPly - 1, "key")
       ELSE Stay("ArrowLeft")

keyArrowRight ==
    /\ build = "pgn"
    /\ queue.mounted
    /\ IF keyEnv.currentPly < Len(keyEnv.moves)
       THEN jumpToPly(keyEnv.baseFen, keyEnv.moves, keyEnv.currentPly + 1, "key")
       ELSE Stay("ArrowRight")

keyEnd ==
    /\ build = "pgn"
    /\ queue.mounted
    /\ IF keyEnv.currentPly < Len(keyEnv.moves)
       THEN jumpToPly(keyEnv.baseFen, keyEnv.moves, Len(keyEnv.moves), "key")
       ELSE Stay("End")

keyHome ==
    /\ build = "pgn"
    /\ queue.mounted
    /\ IF keyEnv.currentPly # 0
       THEN jumpToPly(keyEnv.baseFen, keyEnv.moves, 0, "key")
       ELSE Stay("Home")

(***************************************************************************)
(* Interactive moves.                                                      *)
(***************************************************************************)
\* the move appended without trimming the history at the cursor
newMovesUntrimmed(mv, ply, san) == Append(mv, san)

\* [...moves.slice(0, currentPly), mv.san]
newMovesOf(mv, ply, san) == Append(Slice(mv, ply), san)

\* the body of onPieceDrop in src/src/App.jsx and of the first declaration of
\* that name in part_002, which calls setPgnError("") as well: the move is
\* made on a copy of the displayed position and recorded at the cursor (an
\* illegal move is refused whether move() returns null or throws)
recordMove(d) ==
    /\ UNCHANGED <<build, rejects, session, baseFen, whiteName, chessPosition,
                   moveFrom, pgnText, reader>>
    /\ \E next \in {LoadChess(Fen(game))} :
           \E id \in {SquareMoveId(next, d.from, d.to)} :
              IF id = 0
              THEN /\ UNCHANGED <<moves, currentPly, game, fenText, lastMove,
                                  fenError, pgnError>>
                   /\ op' = Done("move", d, FALSE)
                   /\ Returned
              ELSE /\ moves' = newMovesOf(moves, currentPly, MoveTable[id].san)
                   /\ currentPly' = Len(moves')
                   /\ game' = Kept(Played(next, id))
                   /\ fenText' = Fen(Played(next, id))
                   /\ fenError' = ""
                   /\ pgnError' = IF build = "pgn" THEN NoPgnError ELSE pgnError
                   /\ lastMove' = [from |-> d.from, to |-> d.to]
                   /\ op' = [Done("move", d, TRUE) EXCEPT
                                !.cut = Len(moves) - Len(Slice(moves, currentPly))]
                   /\ Handled({"moves", "currentPly", "game", "fenText",
                                "fenError", "lastMove"}
                               \cup IF build = "pgn" THEN {"pgnError"} ELSE {})

\* src/src/App.jsx onPieceDrop
onPieceDrop ==
    /\ build = "app"
    /\ \E d \in session.drops : recordMove(d)

\* part_002 onPieceDrop, the second declaration of that name in the component,
\* which is the one the board calls: the move is made on chessRef only.  A
\* move() that returns null lets the handler run on to setLastMove and to
\* return true; op.ok is the value returned.
onPieceDropBoard ==
    /\ build = "pgn"
    /\ UNCHANGED <<build, rejects, session, baseFen, game, moves, currentPly, pgnError,
                   fenError, whiteName, fenText, pgnText, reader>>
    /\ \E d \in session.drops :
           LET id == SquareMoveId(chessRef, d.from, d.to)
               ref == IF id = 0 THEN chessRef ELSE Kept(Played(chessRef, id))
           IN IF d.to = "" \/ (id = 0 /\ rejects = "throw")
              THEN /\ UNCHANGED <<chessPosition, moveFrom, lastMove>>
                   /\ op' = Done("move", d, FALSE)
                   /\ Returned
              ELSE /\ chessPosition' = Fen(ref)
                   /\ moveFrom' = ""
                   /\ lastMove' = [from |-> d.from, to |-> d.to]
                   /\ op' = Done("move", d, TRUE)
                   /\ HandledBoard({"chessPosition", "moveFrom", "lastMove"},
                                   ref)

\* part_002 onSquareClick(square, piece): piece is what the board shows on the
\* square; every path calls setSquareStyles, so the click is rendered
onSquareClick ==
    /\ build = "pgn"
    /\ UNCHANGED <<build, rejects, session, baseFen, game, moves, currentPly, pgnError,
                   fenError, whiteName, fenText, pgnText, reader>>
    /\ \E square \in session.squares :
           LET piece == Occupied(LoadChess(chessPosition), square)
               hasMoveOptions == MovesFrom(chessRef, square) # {}
               id == SquareMoveId(chessRef, moveFrom, square)
           IN IF moveFrom = "" /\ piece
              THEN /\ moveFrom' = IF hasMoveOptions THEN square ELSE moveFrom
                   /\ UNCHANGED <<chessPosition, lastMove>>
                   /\ op' = Done("move", [from |-> moveFrom, to |-> square], FALSE)
                   /\ HandledBoard(IF hasMoveOptions THEN {"moveFrom"} ELSE {},
                                   chessRef)
              ELSE IF id = 0
              THEN /\ moveFrom' = IF hasMoveOptions THEN square ELSE ""
                   /\ UNCHANGED <<chessPosition, lastMove>>
                   /\ op' = Done("move", [from |-> moveFrom, to |-> square], FALSE)
                   /\ HandledBoard({"moveFrom"}, chessRef)
              ELSE /\ chessPosition' = Fen(Played(chessRef, id))
                   /\ moveFrom' = ""
                   /\ lastMove' = [from |-> moveFrom, to |-> square]
                   /\ op' = Done("move", [from |-> moveFrom, to |-> square], TRUE)
                   /\ HandledBoard({"chessPosition", "moveFrom", "lastMove"},
                                   Kept(Played(chessRef, id)))

\* src/src/App.jsx undo: a press with an empty history returns at once; op.arg
\* keeps the cursor at the press
undo ==
    /\ build = "app"
    /\ UNCHANGED <<build, rejects, session, baseFen, pgnError, fenError, whiteName,
                   chessPosition, moveFrom, pgnText, reader>>
    /\ IF Len(moves) = 0
       THEN /\ op' = Done("undo", currentPly, FALSE)
            /\ UNCHANGED <<moves, currentPly, game, fenText, lastMove>>
            /\ Returned
       ELSE \E newMoves \in {Slice(moves, 0 - 1)},
               p \in {positionAtPly(baseFen, moves, Len(moves) - 1)} :
               /\ moves' = newMoves
               /\ currentPly' = Len(newMoves)
               /\ op' = Done("undo", currentPly, ~p.threw)
               /\ IF p.threw
                  THEN /\ UNCHANGED <<game, fenText, lastMove>>
                       /\ Handled({"moves", "currentPly"})
                  ELSE /\ game' = Kept(p.ch)
                       /\ fenText' = Fen(p.ch)
                       /\ lastMove' = p.lm
                       /\ Handled({"moves", "currentPly", "game", "fenText",
                                    "lastMove"})

(***************************************************************************)
(* Loading a base position.                                                *)
(***************************************************************************)
\* the state updates shared by reset, loadFen, loadRandomFen: a new base
\* position with an empty history
LoadBase(next, arg) ==
    /\ \E ch \in {next} : baseFen' = Fen(ch) /\ game' = ch /\ fenText' = Fen(ch)
    /\ moves' = <<>>
    /\ currentPly' = 0
    /\ lastMove' = NoMove
    /\ pgnError' = NoPgnError
    /\ fenError' = ""
    /\ UNCHANGED <<build, rejects, session, reader, chessPosition, moveFrom,
                   pgnText>>
    /\ op' = Done("load", arg, TRUE)

\* the states LoadBase sets
LoadWrites ==
    {"baseFen", "game", "fenText", "fenError", "moves", "currentPly",
     "lastMove", "pgnError"}

\* reset clears the names shown as well
reset ==
    /\ LoadBase(NewChess, <<>>)
    /\ whiteName' = <<>>
    /\ Handled(LoadWrites \cup {"whiteName"})

\* src/src/App.jsx, the "Start FEN" button
startFenButton ==
    /\ build = "app"
    /\ LoadBase(NewChess, <<>>)
    /\ UNCHANGED whiteName
    /\ Handled(LoadWrites)

\* fenText.trim().replace(/\s+/g, " ")
RECURSIVE JoinFields(_, _)
JoinFields(f, i) ==
    IF i > Len(f) THEN <<>>
    ELSE f[i] \o (IF i < Len(f) THEN <<" ">> ELSE <<>>) \o JoinFields(f, i + 1)

NormalizeFenText(s) == JoinFields(SplitWs(Trim(s)), 1)

\* validateFen(fen).valid: Chess.validate_fen is not defined, so the key is
\* valid when the constructor accepts it
validateFen(fen) == ValidFen(fen)

\* onChange of the FEN field: setFenText(e.target.value), the event coming
\* when the content of the field has changed
typeFen ==
    /\ \E text \in session.typed \ {fenText} :
           /\ fenText' = text
           /\ op' = Done("type", text, TRUE)
    /\ UNCHANGED <<build, rejects, session, baseFen, game, lastMove, moves, currentPly,
                   pgnError, fenError, whiteName, chessPosition, moveFrom,
                   pgnText, reader>>
    /\ Handled({"fenText"})

\* loadFen, from the button or the Enter key of the field: it reads fenText
\* of the last render, which holds what a handler or the user wrote last
loadFen ==
    \E raw \in {NormalizeFenText(fenText)} :
        IF validateFen(raw)
        THEN /\ LoadBase(LoadChess(raw), fenText)
             /\ UNCHANGED whiteName
             /\ Handled(LoadWrites)
        ELSE /\ \E message \in ThrownMessages :
                    fenError' = InvalidFenText(validateFenError(message))
             /\ op' = Done("load", fenText, FALSE)
             /\ UNCHANGED <<build, rejects, session, baseFen, game, lastMove, moves,
                            currentPly, pgnError, whiteName, chessPosition,
                            moveFrom, fenText, pgnText, reader>>
             /\ Handled({"fenError"})

loadRandomFen ==
    \E pick \in session.picks :
        /\ LoadBase(LoadChess(pick), pick)
        /\ UNCHANGED whiteName
        /\ Handled(LoadWrites)

(***************************************************************************)
(* Transcript import (part_002).                                           *)
(***************************************************************************)
\* the loop going on after a rejected token instead of returning
RECURSIVE ApplyAllSkipping(_, _, _, _)
ApplyAllSkipping(ch, tokens, i, applied) ==
    IF i > Len(tokens) THEN [fail |-> 0, applied |-> applied]
    ELSE CHOOSE r \in
             {IF SanMoveId(c, tokens[i]) = 0
              THEN ApplyAllSkipping(c, tokens, i + 1, applied)
              ELSE ApplyAllSkipping(Played(c, SanMoveId(c, tokens[i])), tokens, i + 1,
                                    Append(applied, MoveTable[SanMoveId(c, tokens[i])].san)) :
              c \in {ch}} : TRUE

\* the loop of importPgn over the tokens: the index (from 1) of the first token
\* move() rejects, 0 if none, and the notations applied before it
RECURSIVE ApplyAll(_, _, _, _)
ApplyAll(ch, tokens, i, applied) ==
    IF i > Len(tokens) THEN [fail |-> 0, applied |-> applied]
    ELSE CHOOSE r \in
             {IF SanMoveId(c, tokens[i]) = 0
              THEN [fail |-> i, applied |-> applied]
              ELSE ApplyAll(Played(c, SanMoveId(c, tokens[i])), tokens, i + 1,
                            Append(applied, MoveTable[SanMoveId(c, tokens[i])].san)) :
              c \in {ch}} : TRUE

\* the try block of importPgn up to the end of its loop, which reads the text
\* only, computed once for each transcript: the tokens, the starting key,
\* whether the constructor accepts it, and the outcome of the loop
ImportRun ==
    [t \in PgnTexts |->
        LET tk == Tokenized[t]
            base == IF tk.startFen # <<>> THEN tk.startFen ELSE StartFen
            valid == ValidFen(base)
            r == IF valid THEN ApplyAll(LoadChess(base), tk.tokens, 1, <<>>)
                 ELSE [fail |-> 0, applied |-> <<>>]
        IN [tokens |-> tk.tokens, base |-> base, valid |-> valid,
            fail |-> r.fail, applied |-> r.applied]]

\* the updates of a successful importPgn, in the order of the setter calls
ImportUpdates(base, applied, ply, p) ==
    Upd([baseFen |-> base, moves |-> applied, currentPly |-> ply,
         game |-> Kept(p.ch), fenText |-> Fen(p.ch), lastMove |-> p.lm])

\* the updates made into the state: by the handler of the button at once, by
\* the callback of a read (name "onload") in the next render
ImportDone(upd, name, text, ok) ==
    IF name = "onload"
    THEN Enqueue(queue, upd, Done(name, text, ok))
    ELSE /\ Commit(upd)
         /\ Handled(DOMAIN upd)
         /\ op' = Done(name, text, ok)

\* importPgn(text) called from a render whose baseFen and moves were cBase and
\* cMoves.  An exception (an invalid starting key, or an illegal token when
\* move() throws) leaves the handler after the setters of the error line and
\* of the names have been called.
importPgn(text, cBase, cMoves, name) ==
    \E run \in {ImportRun[text]},
       shown \in {Upd([pgnError |-> NoPgnError, whiteName |-> WhiteNames[text]])} :
       IF ~run.valid
       THEN ImportDone(shown, name, text, FALSE)
       ELSE IF run.fail # 0
       THEN ImportDone(
                IF rejects = "null"
                THEN Merged(shown, Upd([pgnError |->
                         [index |-> run.fail, tok |-> run.tokens[run.fail]]]))
                ELSE shown,
                name, text, FALSE)
       ELSE \E p \in {positionAtPly(cBase, cMoves, 0)} :
                ImportDone(Merged(shown, ImportUpdates(run.base, run.applied, 0, p)),
                           name, text, TRUE)

\* onChange of the PGN field: setPgnText(e.target.value)
typePgn ==
    /\ build = "pgn"
    /\ \E text \in session.pasted \ {pgnText} :
           /\ pgnText' = text
           /\ op' = Done("type", text, TRUE)
    /\ UNCHANGED <<build, rejects, session, baseFen, game, lastMove, moves, currentPly,
                   pgnError, fenError, whiteName, chessPosition, moveFrom,
                   fenText, reader>>
    /\ Handled({})

\* the "Load PGN" button: importPgn(pgnText) of the current render, pgnText
\* holding what was typed last, the empty text when the field was left alone
importPgnButton ==
    /\ build = "pgn"
    /\ importPgn(pgnText, baseFen, moves, "import")
    /\ UNCHANGED <<build, rejects, session, reader>>

\* importPgnFromFile(file): a new FileReader is made and the read started;
\* its onload holds importPgn of this render, of whose closure only baseFen
\* is kept: positionAtPly(0) replays no move
importPgnFromFile ==
    /\ build = "pgn"
    /\ \E text \in session.files :
           /\ reader' = reader \cup {[text |-> text, baseFen |-> baseFen]}
           /\ Cardinality(reader') <= MaxReads
    /\ op' = Done("file", <<>>, TRUE)
    /\ Returned
    /\ UNCHANGED <<build, rejects, session, baseFen, game, lastMove, moves, currentPly,
                   pgnError, fenError, whiteName, chessPosition, moveFrom,
                   fenText, pgnText>>

\* reader.onload: importPgn of the render that started the read, called
\* outside a handler; the read is over, another one of the same text and
\* baseFen may still be in flight
readerOnload ==
    /\ build = "pgn"
    /\ \E r \in reader :
           /\ importPgn(r.text, r.baseFen, <<>>, "onload")
           /\ reader' \in {reader \ {r}, reader}
    /\ UNCHANGED <<build, rejects, session>>

\* reader.onerror: the read failed
readerOnerror ==
    /\ build = "pgn"
    /\ \E r \in reader :
           /\ Enqueue(queue, Upd([pgnError |-> ReadFailed]),
                      Done("onerror", r.text, TRUE))
           /\ reader' \in {reader \ {r}, reader}
    /\ UNCHANGED <<build, rejects, session>>

(***************************************************************************)
(* The specification: the handlers of the user interface.                  *)
(***************************************************************************)
\* src/unnamed/part_002
Next ==
    \/ stepBack
    \/ stepForward
    \/ goLatest
    \/ goStart
    \/ moveClick
    \/ keyArrowLeft
    \/ keyArrowRight
    \/ keyEnd
    \/ keyHome
    \/ onPieceDropBoard
    \/ onSquareClick
    \/ reset
    \/ typeFen
    \/ loadFen
    \/ loadRandomFen
    \/ typePgn
    \/ importPgnButton
    \/ importPgnFromFile
    \/ readerOnload
    \/ readerOnerror
    \/ mountEffect
    \/ renderQueued
    \/ passiveEffects

Init == FirstRender("pgn", PgnSessions)

Spec == Init /\ [][Next]_vars

\* src/src/App.jsx
NextApp ==
    \/ stepBack
    \/ stepForward
    \/ goLatest
    \/ moveClick
    \/ onPieceDrop
    \/ undo
    \/ reset
    \/ startFenButton
    \/ typeFen
    \/ loadFen
    \/ loadRandomFen
    \/ mountEffect
    \/ renderQueued

InitApp == FirstRender("app", {AppSession})

SpecApp == InitApp /\ [][NextApp]_vars

(***************************************************************************)
(* The timeline operations called directly: jumpToPly is handed to the     *)
(* move list components as a property and takes any ply.                   *)
(***************************************************************************)
jumpToPlyCall ==
    \E ply \in (0 - 1)..MaxPly : jumpToPly(baseFen, moves, ply, "jump")

NextApi == NextApp \/ jumpToPlyCall

InitApi == FirstRender("app", {ApiSession})

SpecApi == InitApi /\ [][NextApi]_vars

(***************************************************************************)
(* The replay on its own: the component holding any base position of the   *)
(* model and any history that is legal from it, and jumpToPly called with  *)
(* the plies of the history.                                               *)
(***************************************************************************)
Bases == {StartFen, FenAfterE4, FenAfterE4E5}

Sans == {MoveTable[i].san : i \in MoveIds}

LegalHistories(base) ==
    {h \in UNION {[1..n -> Sans] : n \in 0..MaxHist} :
        ~ReplayRejected(LoadChess(base), h, 1, Len(h))}

InitReplay ==
    /\ build \in {"app", "pgn"}
    /\ rejects \in {"null", "throw"}
    /\ session = NoSession
    /\ baseFen \in Bases
    /\ moves \in LegalHistories(baseFen)
    /\ game = LoadChess(baseFen)
    /\ currentPly = 0
    /\ lastMove = NoMove
    /\ pgnError = NoPgnError
    /\ fenError = ""
    /\ whiteName = IF build = "pgn" /\ moves # <<>>
                   THEN <<"W", "h", "i", "t", "e">> ELSE <<>>
    /\ chessRef = IF build = "pgn" THEN LoadChess(baseFen) ELSE NewChess
    /\ chessPosition = IF build = "pgn" THEN baseFen ELSE <<>>
    /\ moveFrom = ""
    /\ fenText = baseFen
    /\ pgnText = <<>>
    /\ keyEnv = IF build = "app" THEN KeyEffect(<<>>, <<>>, 0)
                ELSE IF moves # <<>> THEN KeyEffect(baseFen, moves, 0)
                ELSE KeyEffect(StartFen, <<>>, 0)
    /\ reader = {}
    /\ queue = Settled
    /\ op = Done("load", baseFen, TRUE)

jumpToPlyInRange ==
    \E ply \in 0..Len(moves) : jumpToPly(baseFen, moves, ply, "jump")

NextReplay == jumpToPlyInRange

SpecReplay == InitReplay /\ [][NextReplay]_vars

(***************************************************************************)
(* The recording of a move: onPieceDrop of src/src/App.jsx as the page     *)
(* runs it, and the first declaration of onPieceDrop in part_002, which    *)
(* the second declaration (the one the board gets) hides, called on its    *)
(* own on any base position with any history that is legal from it,        *)
(* between jumps.                                                          *)
(***************************************************************************)
onPieceDropFirst ==
    /\ build = "pgn"
    /\ \E d \in Drops : recordMove(d)

InitRecord == InitApp \/ (InitReplay /\ build = "pgn")

NextRecord == NextApp \/ onPieceDropFirst

SpecRecord == InitRecord /\ [][NextRecord]_vars

(***************************************************************************)
(* The tokenizer on its own: sanitizeAndTokenizePgn called with a text     *)
(* assembled from pieces (moves, white space, move-number markers, the     *)
(* parentheses of variations), the pieces kept beside the text.            *)
(***************************************************************************)
Piece(k, t) == [k |-> k, t |-> t]

\* white space of one character
Ws(c) == Piece("ws", <<c>>)

\* pieces of a transcript with variations
NestedPieces ==
    { Piece("open", <<"(">>), Piece("close", <<")">>), Piece("move", e4),
      Ws(" "), Ws("\n"), Ws("U+2028") }

\* pieces of a transcript of plain moves
PlainPieces ==
    { Piece("move", e4), Piece("move", Nf3),
      Ws(" "), Ws("\n"), Ws("\r"), Ws("U+00A0"), Ws("U+2028"),
      Piece("num", <<"1", ".">>), Piece("num", <<"1", "2", ".", ".", ".">>) }

\* "1. e4 (1... c5 (1... c6 2. d4)) e5"
PlanNested ==
    << [k |-> "num", t |-> <<"1", ".">>],
       [k |-> "ws", t |-> <<" ">>],
       [k |-> "move", t |-> <<"e", "4">>],
       [k |-> "ws", t |-> <<" ">>],
       [k |-> "open", t |-> <<"(">>],
       [k |-> "num", t |-> <<"1", ".", ".", ".">>],
       [k |-> "ws", t |-> <<" ">>],
       [k |-> "move", t |-> <<"c", "5">>],
       [k |-> "ws", t |-> <<" ">>],
       [k |-> "open", t |-> <<"(">>],
       [k |-> "num", t |-> <<"1", ".", ".", ".">>],
       [k |-> "ws", t |-> <<" ">>],
       [k |-> "move", t |-> <<"c", "6">>],
       [k |-> "ws", t |-> <<" ">>],
       [k |-> "num", t |-> <<"2", ".">>],
       [k |-> "ws", t |-> <<" ">>],
       [k |-> "move", t |-> <<"d", "4">>],
       [k |-> "close", t |-> <<")">>],
       [k |-> "close", t |-> <<")">>],
       [k |-> "ws", t |-> <<" ">>],
       [k |-> "move", t |-> <<"e", "5">>] >>

\* "1. e4 e5 2. Nf3 Nc6"
PlanPlain ==
    << [k |-> "num", t |-> <<"1", ".">>],
       [k |-> "ws", t |-> <<" ">>],
       [k |-> "move", t |-> <<"e", "4">>],
       [k |-> "ws", t |-> <<" ">>],
       [k |-> "move", t |-> <<"e", "5">>],
       [k |-> "ws", t |-> <<" ">>],
       [k |-> "num", t |-> <<"2", ".">>],
       [k |-> "ws", t |-> <<" ">>],
       [k |-> "move", t |-> <<"N", "f", "3">>],
       [k |-> "ws", t |-> <<" ">>],
       [k |-> "move", t |-> <<"N", "c", "6">>] >>

SeqsUpTo(S, n) == UNION {[1..k -> S] : k \in 0..n}

\* the parentheses of the pieces from i on are properly nested, depth of them
\* being open at i
RECURSIVE Balanced(_, _, _)
Balanced(p, i, depth) ==
    IF i > Len(p) THEN depth = 0
    ELSE IF p[i].k = "open" THEN Balanced(p, i + 1, depth + 1)
    ELSE IF p[i].k = "close" THEN depth > 0 /\ Balanced(p, i + 1, depth - 1)
    ELSE Balanced(p, i + 1, depth)

NestedPlans ==
    {p \in SeqsUpTo(NestedPieces, MaxNestedPieces) : Balanced(p, 1, 0)} \cup {PlanNested}

\* plain moves separated by white space and move-number markers: no move
\* stands directly after another
SeparatedPlans ==
    {p \in SeqsUpTo(PlainPieces, MaxPlainPieces) :
        \A i \in 2..Len(p) : p[i - 1].k = "move" => p[i].k # "move"} \cup {PlanPlain}

\* of these, the transcripts where white space follows every move that is not
\* the end of the text, a marker standing alone or before the move it numbers
PlainPlans ==
    {p \in SeparatedPlans :
        \A i \in 2..Len(p) : p[i - 1].k = "move" => p[i].k = "ws"}

\* how a metadata tag is written: the white space between its name and its
\* value, and what follows its closing bracket (a line end when the tag is on
\* a line of its own, nothing when the next piece stands on the same line)
OwnLine == [sep |-> <<" ">>, end |-> <<"\n">>]

TagForms == {OwnLine, [sep |-> <<"U+00A0", "\n">>, end |-> <<>>]}

\* a metadata tag: [<name><sep>"<value>"]<end>
TagText(name, value, form) ==
    <<"[">> \o name \o form.sep \o <<"\"">> \o value \o <<"\"", "]">> \o form.end

FenTag(name, value, form) == Piece("fen", TagText(name, value, form))

\* the names the position tag is written with, and the values it carries
FenTagNames == {<<"F", "E", "N">>, <<"f", "e", "n">>}

FenTagValues == {FenAfterE4, FenAfterE4E5}

\* the tag that declares a position set up
SetUpTag(form) == Piece("setup", TagText(<<"S", "e", "t", "U", "p">>, <<"1">>, form))

\* pieces of a transcript with metadata tags: position tags, setup tags, a
\* SetUp tag that declares no position set up, another tag, a move
TagPieces ==
    {FenTag(n, v, f) : n \in FenTagNames, v \in FenTagValues, f \in TagForms}
    \cup {SetUpTag(f) : f \in TagForms}
    \cup { Piece("other", TagText(<<"S", "e", "t", "U", "p">>, <<"0">>, OwnLine)),
           Piece("other", TagText(<<"E", "v", "e", "n", "t">>, <<"x">>, OwnLine)),
           Piece("move", e4), Ws(" ") }

\* "[Event "x"]\n[SetUp "1"]\n[FEN "<key after 1. e4>"]\n1... e5"
PlanTagged ==
    << Piece("other", TagText(<<"E", "v", "e", "n", "t">>, <<"x">>, OwnLine)),
       SetUpTag(OwnLine),
       FenTag(<<"F", "E", "N">>, FenAfterE4, OwnLine),
       Piece("num", <<"1", ".", ".", ".">>),
       Piece("ws", <<" ">>),
       Piece("move", e5) >>

TagPlans == SeqsUpTo(TagPieces, MaxTagPieces) \cup {PlanTagged}

\* pieces of a transcript with result markers
ResultPieces ==
    {Piece("result", ResultMarkers[k]) : k \in 1..Len(ResultMarkers)}
    \cup { Piece("move", e4), Piece("ws", <<" ">>) }

\* "1. e4 e5 1-0"
PlanResult ==
    << Piece("num", <<"1", ".">>), Piece("ws", <<" ">>), Piece("move", e4),
       Piece("ws", <<" ">>), Piece("move", e5), Piece("ws", <<" ">>),
       Piece("result", <<"1", "-", "0">>) >>

\* every move and every result marker stands as a word of its own, white
\* space on both sides of it or an end of the text
ResultPlans ==
    {p \in SeqsUpTo(ResultPieces, MaxResultPieces) :
        \A i \in 2..Len(p) : p[i - 1].k # "ws" => p[i].k = "ws"} \cup {PlanResult}

\* a move-number marker: the digits of number n and a run of periods
RECURSIVE Periods(_)
Periods(n) == IF n = 0 THEN <<>> ELSE <<".">> \o Periods(n - 1)

Marker(n, periods) == Piece("num", FormatNat(n) \o Periods(periods))

\* the numbers and the lengths of the run of periods the markers are made of
MarkerNumbers == {12}

MarkerPeriods == 1..4

\* pieces of a transcript with move-number markers
MarkerPieces ==
    {Marker(n, k) : n \in MarkerNumbers, k \in MarkerPeriods}
    \cup { Piece("move", e4), Piece("ws", <<" ">>) }

\* "12.e4 e5 13.Nf3": the markers attached to the move that follows
PlanAttached ==
    << Marker(12, 1), Piece("move", e4), Piece("ws", <<" ">>), Piece("move", e5),
       Piece("ws", <<" ">>), Marker(13, 1), Piece("move", Nf3) >>

\* a marker stands alone or before the move it numbers: white space follows
\* every move
MarkerPlans ==
    {p \in SeqsUpTo(MarkerPieces, MaxMarkerPieces) :
        \A i \in 2..Len(p) : p[i - 1].k = "move" => p[i].k = "ws"}
    \cup {PlanAttached}

\* pieces of a transcript of annotated moves: a move, the check and mate
\* markers, the annotation characters, white space
AnnotPieces ==
    { Piece("move", e4), Piece("check", <<"+">>), Piece("check", <<"#">>),
      Piece("annot", <<"!">>), Piece("annot", <<"?">>),
      Ws(" "), Ws("\t"), Ws("U+3000") }

\* "e4!? Nf3+!! e5#?"
PlanAnnotated ==
    << Piece("move", e4), Piece("annot", <<"!">>), Piece("annot", <<"?">>),
       Piece("ws", <<" ">>),
       Piece("move", Nf3), Piece("check", <<"+">>), Piece("annot", <<"!">>),
       Piece("annot", <<"!">>), Piece("ws", <<" ">>),
       Piece("move", e5), Piece("check", <<"#">>), Piece("annot", <<"?">>) >>

AnnotPlans == SeqsUpTo(AnnotPieces, MaxAnnotPieces) \cup {PlanAnnotated}

\* a comment between braces, and a comment from a semicolon to the end of
\* its line
BraceComment(text) == Piece("comment", <<"{">> \o text \o <<"}">>)

LineComment(text) == Piece("comment", <<";">> \o text \o <<"\n">>)

\* pieces of a transcript with comments: "{(;}", "{1. e5 1-0 {}", ";( {",
\* ";1. e5 1-0 ;", ";}", a move, white space
CommentPieces ==
    { BraceComment(<<"(", ";">>),
      BraceComment(<<"1", ".", " ", "e", "5", " ", "1", "-", "0", " ", "{">>),
      LineComment(<<"(", " ", "{">>),
      LineComment(<<"1", ".", " ", "e", "5", " ", "1", "-", "0", " ", ";">>),
      LineComment(<<"}">>),
      Piece("move", e4), Piece("ws", <<" ">>) }

\* moves do not touch one another: a comment or white space follows each
CommentPlans ==
    {p \in SeqsUpTo(CommentPieces, MaxCommentPieces) :
        \A i \in 2..Len(p) : p[i - 1].k = "move" => p[i].k # "move"}

TokPlans ==
    NestedPlans \cup SeparatedPlans \cup TagPlans \cup ResultPlans \cup MarkerPlans
    \cup AnnotPlans \cup CommentPlans

\* the text the pieces make
RECURSIVE PlanText(_, _)
PlanText(p, i) == IF i > Len(p) THEN <<>> ELSE p[i].t \o PlanText(p, i + 1)

InitTok ==
    /\ build = "pgn"
    /\ rejects = "null"
    /\ session = NoSession
    /\ baseFen = StartFen
    /\ game = NewChess
    /\ moves = <<>>
    /\ currentPly = 0
    /\ lastMove = NoMove
    /\ pgnError = NoPgnError
    /\ fenError = ""
    /\ whiteName = <<>>
    /\ chessRef = NewChess
    /\ chessPosition = StartFen
    /\ moveFrom = ""
    /\ fenText = StartFen
    /\ pgnText = <<>>
    /\ keyEnv = KeyEffect(StartFen, <<>>, 0)
    /\ reader = {}
    /\ queue = Settled
    /\ \E p \in TokPlans :
           op = [name |-> "text", arg |-> PlanText(p, 1), ok |-> FALSE, cut |-> 0,
                 pieces |-> p]

\* sanitizeAndTokenizePgn(text): op keeps the value returned
tokenizeCall ==
    /\ op.name = "text"
    /\ op' = [name |-> "tokenize", arg |-> op.arg, ok |-> TRUE, cut |-> 0,
              pieces |-> op.pieces, out |-> sanitizeAndTokenizePgn(op.arg)]
    /\ UNCHANGED <<build, rejects, session, baseFen, game, lastMove, moves, currentPly,
                   pgnError, fenError, whiteName, chessRef, chessPosition,
                   moveFrom, fenText, pgnText, keyEnv, reader, queue>>

NextTok == tokenizeCall

SpecTok == InitTok /\ [][NextTok]_vars

(***************************************************************************)
(* The move number offset on its own: baseFullmove computed for a key whose *)
(* sixth field is any short text, or the first integer a double does not   *)
(* hold, or is missing.                                                    *)
(***************************************************************************)
\* the first five fields of a key
KeyHead == <<"0", " ", "w", " ", "-", " ", "-", " ", "0">>

\* the characters the sixth field is made of
FieldChars == {"0", "1", "2", "x", "-"}

\* 2^53 + 1 written in digits
PastExact ==
    <<"9", "0", "0", "7", "1", "9", "9", "2", "5", "4", "7", "4", "0", "9", "9", "3">>

\* the sixth field: present with a text, or absent
SixthFields ==
    {[present |-> TRUE, field |-> t] :
        t \in SeqsUpTo(FieldChars, MaxFieldLen) \cup {PastExact}}
    \cup {[present |-> FALSE, field |-> <<>>]}

KeyText(six) == IF six.present THEN KeyHead \o <<" ">> \o six.field ELSE KeyHead

InitNumber ==
    /\ build \in {"app", "pgn"}
    /\ rejects = "null"
    /\ session = NoSession
    /\ baseFen = StartFen
    /\ game = NewChess
    /\ moves = <<>>
    /\ currentPly = 0
    /\ lastMove = NoMove
    /\ pgnError = NoPgnError
    /\ fenError = ""
    /\ whiteName = <<>>
    /\ chessRef = NewChess
    /\ chessPosition = IF build = "pgn" THEN StartFen ELSE <<>>
    /\ moveFrom = ""
    /\ fenText = StartFen
    /\ pgnText = <<>>
    /\ keyEnv = KeyEffect(IF build = "pgn" THEN StartFen ELSE <<>>, <<>>, 0)
    /\ reader = {}
    /\ queue = Settled
    /\ \E six \in SixthFields :
           op = [name |-> "key", arg |-> KeyText(six), ok |-> FALSE, cut |-> 0,
                 pieces |-> six]

\* the move number offset of a render whose base key is the text: op keeps
\* the value
baseFullmoveCall ==
    /\ op.name = "key"
    /\ op' = [name |-> "fullmove", arg |-> op.arg, ok |-> TRUE, cut |-> 0,
              pieces |-> op.pieces, out |-> baseFullmoveOf(op.arg)]
    /\ UNCHANGED <<build, rejects, session, baseFen, game, lastMove, moves, currentPly,
                   pgnError, fenError, whiteName, chessRef, chessPosition,
                   moveFrom, fenText, pgnText, keyEnv, reader, queue>>

NextNumber == baseFullmoveCall

SpecNumber == InitNumber /\ [][NextNumber]_vars

(***************************************************************************)
(* The loop of stripParenBlocks, pass by pass, on every text of            *)
(* parentheses and a letter up to a length: the nested, the unbalanced and *)
(* the ones without parentheses are all among them.                        *)
(***************************************************************************)
MaxStripLen == 5

StripChars == {"(", ")", "e"}

StripTexts == SeqsUpTo(StripChars, MaxStripLen)

\* op.out is the argument of the call, op.arg the variable s, op.pieces the
\* variable prev, op.cut the number of passes made, op.ok whether the
\* function has returned
InitStrip ==
    /\ build = "pgn"
    /\ rejects = "null"
    /\ session = NoSession
    /\ baseFen = StartFen
    /\ game = NewChess
    /\ moves = <<>>
    /\ currentPly = 0
    /\ lastMove = NoMove
    /\ pgnError = NoPgnError
    /\ fenError = ""
    /\ whiteName = <<>>
    /\ chessRef = NewChess
    /\ chessPosition = StartFen
    /\ moveFrom = ""
    /\ fenText = StartFen
    /\ pgnText = <<>>
    /\ keyEnv = KeyEffect(StartFen, <<>>, 0)
    /\ reader = {}
    /\ queue = Settled
    /\ \E text \in StripTexts :
           op = [name |-> "text", arg |-> text, ok |-> FALSE, cut |-> 0,
                 pieces |-> text, out |-> text]

\* one turn of the loop: prev = s; s = s.replace(...); then the test
\* s !== prev, the function returning s when it is false
stripPass ==
    /\ op.name \in {"text", "strip"}
    /\ ~op.ok
    /\ \E s \in {StripParenPass(op.arg, 1)} :
           op' = [name |-> "strip", arg |-> s, ok |-> s = op.arg,
                  cut |-> op.cut + 1, pieces |-> op.arg, out |-> op.out]
    /\ UNCHANGED <<build, rejects, session, baseFen, game, lastMove, moves, currentPly,
                   pgnError, fenError, whiteName, chessRef, chessPosition,
                   moveFrom, fenText, pgnText, keyEnv, reader, queue>>

NextStrip == stripPass

\* the loop is not interrupted: a turn that can be made is made
SpecStrip == InitStrip /\ [][NextStrip]_vars /\ WF_vars(NextStrip)

(***************************************************************************)
(* The timeline of the specification, in the terms of the state.           *)
(***************************************************************************)
\* the key of replay(base, h[0..k-1])
ReplayKey(base, h, k) == Fen(Replay(LoadChess(base), h, 1, k))

\* the canonical notation of the move between two squares
NotationOf(drop) ==
    {MoveTable[i].san : i \in {j \in MoveIds : /\ MoveTable[j].from = drop.from
                                                /\ MoveTable[j].to = drop.to}}

\* the tokens and the starting key of a transcript
TokensOf(text) == Tokenized[text].tokens

StartOf(text) ==
    IF Tokenized[text].startFen # <<>> THEN Tokenized[text].startFen ELSE StartFen

\* the canonical notations of the tokens from index i on that the rules
\* authority accepts in order from ch, up to the first one it rejects
RECURSIVE AcceptedFrom(_, _, _)
AcceptedFrom(ch, toks, i) ==
    IF i > Len(toks) \/ SanMoveId(ch, toks[i]) = 0 THEN <<>>
    ELSE <<MoveTable[SanMoveId(ch, toks[i])].san>>
         \o AcceptedFrom(Played(ch, SanMoveId(ch, toks[i])), toks, i + 1)

AcceptedPrefix ==
    [t \in PgnTexts |-> AcceptedFrom(LoadChess(StartOf(t)), TokensOf(t), 1)]

\* some token of the transcript is rejected; the index (from 1) of the first
SomeTokenRejected(text) == Len(AcceptedPrefix[text]) < Len(TokensOf(text))

FirstRejected(text) == Len(AcceptedPrefix[text]) + 1

(***************************************************************************)
(* Properties.                                                             *)
(***************************************************************************)
\* C1: in every reachable state the position exposed as current is the replay
\* of history[0..cursor-1] from the base position.
C1_CurrentIsReplay ==
    Fen(game) = ReplayKey(baseFen, moves, Min(currentPly, Len(moves)))

\* C2: in every reachable state 0 <= cursor <= len(history).
C2_CursorInRange == currentPly >= 0 /\ currentPly <= Len(moves)

\* C3: a step that records a move m with the cursor at c, c not past the end
\* of the history, yields history = old history[0..c-1] followed by m and
\* cursor = c + 1 = len(history), whatever the old entries from c on were; the
\* entries it discarded are out of reach: a later jump leaves the history as
\* it is and shows the replay of that history only, and a later record
\* extends that history by the same law.
C3_BranchLaw ==
    /\ [][(op'.name = "move" /\ op'.ok /\ currentPly <= Len(moves))
          => /\ \E m \in NotationOf(op'.arg) :
                   moves' = SubSeq(moves, 1, currentPly) \o <<m>>
             /\ currentPly' = currentPly + 1
             /\ currentPly' = Len(moves')]_vars
    /\ [][op'.name \in {"jump", "click"}
          => /\ moves' = moves
             /\ op'.ok => Fen(game') = ReplayKey(baseFen, moves,
                                                 Min(op'.arg, Len(moves)))]_vars

\* a move has been recorded before the tip and has discarded history entries
C3_Witness ==
    /\ op.name = "move"
    /\ op.ok
    /\ op.cut > 0
    /\ currentPly = Len(moves)

\* whether the rules authority rejects the move between the squares of drop
\* on the position the handler makes it on: the object behind the board in
\* part_002, a copy of the displayed position elsewhere
RejectedMove(drop) ==
    SquareMoveId(IF build = "pgn" THEN chessRef ELSE LoadChess(Fen(game)),
                 drop.from, drop.to) = 0

\* C4: after an interactive move that the rules authority accepted, history
\* ends with the move's canonical notation and cursor = len(history).
C4_AcceptedMoveRecorded ==
    [][(op'.name = "move" /\ op'.ok /\ ~RejectedMove(op'.arg))
       => /\ Len(moves') > 0
          /\ currentPly' = Len(moves')
          /\ moves'[Len(moves')] \in NotationOf(op'.arg)]_vars

\* C5: after an import of a transcript whose tokens all apply, the base is the
\* transcript's starting position (the standard one when it names none),
\* history is the canonical notations of the tokens in order, and cursor = 0.
C5_ImportSuccess ==
    (op.name \in {"import", "onload"} /\ ~SomeTokenRejected(op.arg))
    => /\ op.ok
       /\ baseFen = StartOf(op.arg)
       /\ moves = AcceptedPrefix[op.arg]
       /\ currentPly = 0

\* the states of the timeline
TimelineNames == {"baseFen", "moves", "currentPly", "game", "lastMove"}

\* C6: an import in which some token is rejected, run by the button or by the
\* callback of a file read, leaves the base, history, cursor, current
\* position and lastMove as they were: it changes none of them and queues no
\* update of any of them.
C6_FailureContained ==
    [][((importPgnButton \/ readerOnload) /\ SomeTokenRejected(op'.arg))
       => /\ UNCHANGED <<baseFen, moves, currentPly, game, lastMove>>
          /\ \A x \in TimelineNames \cap DOMAIN queue'.upd :
                 x \in DOMAIN queue.upd /\ queue'.upd[x] = queue.upd[x]]_vars

\* the import of a file has failed on a timeline with a history and a cursor
\* past 0
C6_Witness ==
    /\ op.name = "queued"
    /\ ~op.ok
    /\ op.arg = PgnIllegalThird
    /\ queue.op.name = "onload"
    /\ Len(moves) > 0
    /\ currentPly > 0

\* C7: an import in which some token is rejected reports the index (from 1) of
\* the first rejected token.
C7_FirstRejectedReported ==
    (op.name \in {"import", "onload"} /\ SomeTokenRejected(op.arg))
    => pgnError.index = FirstRejected(op.arg)

\* C8: an import in which some token is rejected gives the caller, with the
\* failing index, the moves applied before the failing token.
C8_FailureCarriesPrefix ==
    (op.name \in {"import", "onload"} /\ SomeTokenRejected(op.arg))
    => /\ "applied" \in DOMAIN pgnError
       /\ pgnError.applied = AcceptedPrefix[op.arg]

\* C9: jumpToPly(ply) with ply < 0 or ply > len(history) is rejected and the
\* cursor stays within the history.
C9_OutOfRangeRejected ==
    (op.name = "jump" /\ (op.arg < 0 \/ op.arg > Len(moves)))
    => /\ ~op.ok
       /\ currentPly >= 0
       /\ currentPly <= Len(moves)

\* C10: a jump to a ply with 0 <= ply <= len(history) sets the cursor to the
\* ply and leaves history and the base position unchanged.
C10_JumpInRange ==
    [][(op'.name \in {"jump", "key", "click"}
        /\ op'.arg >= 0 /\ op'.arg <= Len(moves))
       => /\ currentPly' = op'.arg
          /\ moves' = moves
          /\ baseFen' = baseFen]_vars

\* C11: a jump to the ply the cursor is already on leaves history, cursor,
\* lastMove and the current position unchanged.
C11_JumpToCurrentIdempotent ==
    [][(op'.name \in {"jump", "key", "click"} /\ op'.arg = currentPly)
       => /\ moves' = moves
          /\ currentPly' = currentPly
          /\ lastMove' = lastMove
          /\ Fen(game') = Fen(game)]_vars

\* the key of the position a load was asked for: the standard start for a
\* reset (and for a page address without fen parameter), else the position
\* the given text denotes
LoadedKey(arg) == IF arg = <<>> THEN StartFen ELSE Fen(LoadChess(Trim(arg)))

\* C12: after a reset, a load of a valid position from the FEN field or the
\* load of a valid position from the page address, the base position and the
\* current position are the loaded position, history is empty, cursor = 0 and
\* lastMove is none.
C12_LoadBase ==
    ((op.name = "load" \/ (op.name = "mount" /\ op.arg # <<>>)) /\ op.ok)
    => /\ baseFen = LoadedKey(op.arg)
       /\ Fen(game) = LoadedKey(op.arg)
       /\ moves = <<>>
       /\ currentPly = 0
       /\ lastMove = NoMove

\* applyMove of the rules authority on position keys: the key of the position
\* after the move the notation denotes
ApplyMoveKey(key, san) ==
    Fen(Played(LoadChess(key), SanMoveId(LoadChess(key), san)))

\* k successive single applyMove calls of H[1], ..., H[k], starting from base
RECURSIVE StepKey(_, _, _)
StepKey(base, H, k) ==
    IF k = 0 THEN base ELSE ApplyMoveKey(StepKey(base, H, k - 1), H[k])

\* C13: for every history H that is legal from the base position and every
\* ply k in 0..len(H), positionAtPly(k) is the position reached by k
\* successive single applyMove calls of the first k moves of H from the base.
C13_ReplayConsistency ==
    \A k \in 0..Len(moves) :
        Fen(positionAtPly(baseFen, moves, k).ch) = StepKey(baseFen, moves, k)

\* the replay has been asked for the tip of a history of three moves from a
\* base position that is not the standard start
C13_Witness ==
    /\ op.name = "jump"
    /\ op.arg = 3
    /\ Len(moves) = 3
    /\ baseFen = FenAfterE4
    /\ Fen(game) = StepKey(baseFen, moves, 3)

\* the origin and destination squares of h[k] as the rules authority applies it
\* after h[1..k-1] from base; none when it rejects the move
AppliedSquares(base, h, k) ==
    LET id == SanMoveId(Replay(LoadChess(base), h, 1, k - 1), h[k])
    IN IF id = 0 THEN NoMove
       ELSE [from |-> MoveTable[id].from, to |-> MoveTable[id].to]

\* C14: in every reachable state lastMove is none exactly when cursor = 0, and
\* otherwise is the origin and destination of history[cursor-1] as applied in
\* the replay from the base position.
C14_LastMoveOfCursor ==
    /\ (lastMove = NoMove) <=> (currentPly = 0)
    /\ (currentPly > 0 /\ currentPly <= Len(moves))
       => lastMove = AppliedSquares(baseFen, moves, currentPly)

\* C15: an interactive move that the rules authority rejects leaves history,
\* cursor, lastMove and the current position unchanged.
C15_IllegalMoveDiscarded ==
    [][(op'.name = "move" /\ RejectedMove(op'.arg))
       => UNCHANGED <<moves, currentPly, lastMove, game>>]_vars

\* C16: a load of a position key that the rules authority rejects, from the
\* page address when the component mounts or from the FEN field, reports the
\* error and leaves the base position, history, cursor and the current
\* position as they were.
C16_MalformedPosition ==
    /\ []((op.name = "mount" /\ ~op.ok) => fenError # "")
    /\ [][(op'.name = "mount" /\ ~op'.ok)
          => UNCHANGED <<baseFen, moves, currentPly, game>>]_vars
    /\ [][(op'.name = "load" /\ ~op'.ok)
          => /\ fenError' # ""
             /\ UNCHANGED <<baseFen, moves, currentPly, game>>]_vars

\* C17: canBack is true exactly when cursor > 0 and canForward exactly when
\* cursor < len(history); a step back or to the start asked for at cursor 0
\* and a step forward or to the latest move asked for at the tip change
\* nothing (no part of the state, no error line).  At the ends the buttons
\* are disabled, so the step is asked for with a key.
C17_EndsAreNoOps ==
    /\ [](canBack <=> currentPly > 0)
    /\ [](canForward <=> currentPly < Len(moves))
    /\ [][\/ currentPly = 0 /\ (keyArrowLeft \/ keyHome)
          \/ currentPly = Len(moves) /\ (keyArrowRight \/ keyEnd)
          => UNCHANGED <<baseFen, game, lastMove, moves, currentPly,
                         pgnError, fenError, chessRef, chessPosition>>]_vars

\* the timeline a successful load or import installs: its base position and
\* its history
InstalledBase(o) ==
    IF o.name \in {"import", "onload"} THEN StartOf(o.arg) ELSE LoadedKey(o.arg)

InstalledHistory(o) ==
    IF o.name \in {"import", "onload"} THEN AcceptedPrefix[o.arg] ELSE <<>>

\* C18: a reset, a position load and an import, the import completing from a
\* file read included, replace the base position, history and cursor in one
\* step: the state after the step holds the new base position with the new
\* history and cursor 0, whatever ran between the start of the read and its
\* completion.
C18_ReplacedTogether ==
    [][(op'.name \in {"load", "import", "onload"} /\ op'.ok)
       => /\ baseFen' = InstalledBase(op')
          /\ moves' = InstalledHistory(op')
          /\ currentPly' = 0]_vars

\* the moves of the pieces from i on that lie outside every variation, as the
\* fields white space, markers and variations separate; the first field is the
\* rest of the field open at i
RECURSIVE OutsideFrom(_, _, _)
OutsideFrom(p, i, depth) ==
    IF i > Len(p) THEN << <<>> >>
    ELSE IF p[i].k = "open" THEN << <<>> >> \o OutsideFrom(p, i + 1, depth + 1)
    ELSE IF p[i].k = "close" THEN OutsideFrom(p, i + 1, depth - 1)
    ELSE IF depth > 0 THEN OutsideFrom(p, i + 1, depth)
    ELSE IF p[i].k = "move"
         THEN CHOOSE f \in {<< p[i].t \o Head(r) >> \o Tail(r) :
                            r \in {OutsideFrom(p, i + 1, depth)}} : TRUE
    ELSE << <<>> >> \o OutsideFrom(p, i + 1, depth)

OutsideMoves(p) == SelectSeq(OutsideFrom(p, 1, 0), LAMBDA t : t # <<>>)

\* C19: for a transcript whose parentheses are properly nested, to any depth,
\* the tokens are the moves outside the variations, in their order: nothing
\* that stands inside a variation is among them.
C19_VariationsRemoved ==
    (op.name = "tokenize" /\ op.pieces \in NestedPlans)
    => op.out.tokens = OutsideMoves(op.pieces)

\* the transcript with a variation inside a variation has been tokenized
C19_Witness ==
    /\ op.name = "tokenize"
    /\ op.pieces = PlanNested
    /\ op.out.tokens = <<e4, e5>>

\* the move pieces of a transcript, in order
PlanMoves(p) ==
    LET mv == SelectSeq(p, LAMBDA x : x.k = "move")
    IN [i \in 1..Len(mv) |-> mv[i].t]

\* C20: a transcript made only of plain moves separated by white space and
\* move-number markers tokenizes to exactly those moves, in input order, with
\* no starting position.
C20_PlainRoundTrip ==
    (op.name = "tokenize" /\ op.pieces \in SeparatedPlans)
    => /\ op.out.tokens = PlanMoves(op.pieces)
       /\ op.out.startFen = <<>>

\* C20, with white space after every move: a transcript made only of plain
\* moves and move-number markers, each move followed by white space or by the
\* end of the text, tokenizes to exactly those moves, in input order, with no
\* starting position.
C20_SpacedRoundTrip ==
    (op.name = "tokenize" /\ op.pieces \in PlainPlans)
    => /\ op.out.tokens = PlanMoves(op.pieces)
       /\ op.out.startFen = <<>>

\* a transcript whose moves are followed by a no-break space and by a line
\* separator, a marker attached to the second move, has been tokenized
C20_Witness ==
    /\ op.name = "tokenize"
    /\ op.pieces = <<Piece("move", e4), Ws("U+00A0"), Piece("num", <<"1", ".">>),
                     Piece("move", Nf3)>>
    /\ op.out.tokens = <<e4, Nf3>>

\* whether some piece of the transcript is of kind k
HasPiece(p, k) == \E i \in 1..Len(p) : p[i].k = k

\* the value carried by the first position tag of the transcript
FirstFenValue(p) ==
    LET i == CHOOSE j \in 1..Len(p) :
                 p[j].k = "fen" /\ \A m \in 1..(j - 1) : p[m].k # "fen"
    IN CHOOSE v \in FenTagValues :
           \E n \in FenTagNames, f \in TagForms : p[i] = FenTag(n, v, f)

\* C21: the tokenizer returns a starting position exactly when the transcript
\* holds both a position tag and a setup tag (the tag that declares a position
\* set up), and then it is the value of the position tag; with one of the two
\* tags only, or none, it returns none.
C21_StartFenNeedsBothTags ==
    (op.name = "tokenize" /\ op.pieces \in TagPlans)
    => IF HasPiece(op.pieces, "fen") /\ HasPiece(op.pieces, "setup")
       THEN op.out.startFen = FirstFenValue(op.pieces)
       ELSE op.out.startFen = <<>>

\* a transcript with both tags has been tokenized, the position tag's value
\* returned
C21_Witness ==
    /\ op.name = "tokenize"
    /\ op.pieces = PlanTagged
    /\ op.out.startFen = FenAfterE4
    /\ op.out.tokens = <<e5>>

\* C22: when the result markers 1-0, 0-1, 1/2-1/2 and * stand in the move
\* text as words of their own, none of them is among the tokens.
C22_ResultMarkersRemoved ==
    (op.name = "tokenize" /\ op.pieces \in ResultPlans)
    => \A i \in 1..Len(op.out.tokens) :
           \A k \in 1..Len(ResultMarkers) : op.out.tokens[i] # ResultMarkers[k]

\* C23: every move-number marker (digits, a period and possibly further
\* periods) is removed, alone or attached to the move that follows it: the
\* tokens are the moves of the transcript and hold no character of a marker.
C23_MoveNumbersRemoved ==
    (op.name = "tokenize" /\ op.pieces \in MarkerPlans)
    => op.out.tokens = PlanMoves(op.pieces)

\* the words of the pieces from i on, white space separating them; the first
\* word is the rest of the word open at i
RECURSIVE WordsFrom(_, _)
WordsFrom(p, i) ==
    IF i > Len(p) THEN << <<>> >>
    ELSE IF p[i].k = "ws" THEN << <<>> >> \o WordsFrom(p, i + 1)
    ELSE CHOOSE w \in {<< <<p[i]>> \o Head(r) >> \o Tail(r) :
                       r \in {WordsFrom(p, i + 1)}} : TRUE

PlanWords(p) == SelectSeq(WordsFrom(p, 1), LAMBDA w : w # <<>>)

\* a word without the annotation characters that end it
RECURSIVE WithoutTrailingAnnot(_)
WithoutTrailingAnnot(w) ==
    IF Len(w) > 0 /\ w[Len(w)].k = "annot"
    THEN WithoutTrailingAnnot(SubSeq(w, 1, Len(w) - 1))
    ELSE w

\* C24: each token is its word of the transcript without the run of ! and ?
\* that ends the word: a check (+) or mate (#) marker before that run stays at
\* the token's tail and the characters before the run are unchanged.
C24_AnnotationStripped ==
    (op.name = "tokenize" /\ op.pieces \in AnnotPlans)
    => \E w \in {PlanWords(op.pieces)} :
           /\ Len(op.out.tokens) = Len(w)
           /\ \A i \in 1..Len(w) :
                  op.out.tokens[i] = PlanText(WithoutTrailingAnnot(w[i]), 1)

\* "e4!? Nf3+!! e5#?" has been tokenized: the annotations are gone, the
\* check and the mate marker are kept
C24_Witness ==
    /\ op.name = "tokenize"
    /\ op.pieces = PlanAnnotated
    /\ op.out.tokens = <<e4, Nf3 \o <<"+">>, e5 \o <<"#">> >>

\* C25: the text of a comment between braces, and the text from a semicolon
\* to the end of its line, gives no token and takes no move outside the
\* comment away, whatever parentheses, braces, semicolons, move numbers or
\* result markers the comment holds: the tokens are the moves outside the
\* comments.
C25_CommentsRemoved ==
    (op.name = "tokenize" /\ op.pieces \in CommentPlans)
    => op.out.tokens = PlanMoves(op.pieces)

\* C26: pairUp groups the history two at a time in order: pair i holds
\* history[2i] and history[2i+1], there are ceil(len(history)/2) pairs, only
\* the last pair can lack its second move, and pair i is numbered with the
\* move number of the base position plus i.
C26_PairUp ==
    /\ Len(pairs) = (Len(moves) + 1) \div 2
    /\ \A i \in 0..(Len(pairs) - 1) :
           /\ pairs[i + 1] = IF 2 * i + 1 < Len(moves)
                             THEN <<moves[2 * i + 1], moves[2 * i + 2]>>
                             ELSE <<moves[2 * i + 1]>>
           /\ moveNo(i) = Num(LoadChess(baseFen).full + i)

\* a history of three moves from the position after 1. e4 e5 is shown as the
\* pairs numbered 2 and 3, the second one with a single move
C26_Witness ==
    /\ baseFen = FenAfterE4E5
    /\ Len(moves) = 3
    /\ op.name = "jump"
    /\ Len(pairs) = 2
    /\ Len(pairs[2]) = 1
    /\ moveNo(1) = Num(3)

\* the integer that a field of digits holds
HeldInteger(field) ==
    Finite(FALSE, Canon(<<>> \o [i \in 1..Len(field) |-> DigitVal(field[i])]))

\* a well-formed move number: digits only, the number at least 1
WellFormedNumber(six) ==
    six.present /\ AllDigits(six.field) /\ HeldInteger(six.field) # Num(0)

\* C27: startingNumber is the integer held in the sixth space-separated field
\* of the key when the field is a well-formed move number, and 1 when the
\* field is absent or malformed.
C27_StartingNumber ==
    op.name = "fullmove"
    => op.out = IF WellFormedNumber(op.pieces) THEN HeldInteger(op.pieces.field)
                ELSE Num(1)

\* C28: positionAt does not fail for a ply outside the history: for a ply
\* above len(moves) it gives the position after all the moves with the last
\* move of the list (none for an empty list), for a ply below 0 the base
\* position with no last move.  jumpToPly stores what positionAtPly returns.
C28_PositionAtClamps ==
    [][op'.name = "jump"
       => /\ op'.arg > Len(moves)
             => /\ op'.ok
                /\ Fen(game') = StepKey(baseFen, moves, Len(moves))
                /\ lastMove' = IF Len(moves) = 0 THEN NoMove
                                ELSE AppliedSquares(baseFen, moves, Len(moves))
          /\ op'.arg < 0
             => /\ op'.ok
                /\ Fen(game') = baseFen
                /\ lastMove' = NoMove]_vars

\* C29: right after a successful import the current position is the starting
\* position of the imported game and lastMove is none, whatever base position
\* and history the timeline held before.
C29_ImportShowsStart ==
    (op.name \in {"import", "onload"} /\ op.ok)
    => /\ Fen(game) = StartOf(op.arg)
       /\ lastMove = NoMove

\* C30: in every reachable state the whole history is replayable from the
\* base position: applying history[0], history[1], ... in order from it is
\* never rejected by the rules authority.
C30_HistoryReplayable ==
    ~ReplayRejected(LoadChess(baseFen), moves, 1, Len(moves))

\* C31: the position handed to the board widget is the current position of
\* the timeline: after any jump, import, position load or accepted move it is
\* the replay of history[0..cursor-1] from the base position.
C31_BoardShowsCurrent ==
    build = "pgn"
    => chessPosition = ReplayKey(baseFen, moves, Min(currentPly, Len(moves)))

\* C32: a keyboard navigation command acts on the timeline as it is when the
\* key is pressed: the position it shows is the replay of the current history
\* up to the new cursor from the current base position, also after a load or
\* an import that left the cursor and the length of the history unchanged.
C32_KeysActOnCurrentTimeline ==
    [][op'.name = "key"
       => /\ moves' = moves
          /\ baseFen' = baseFen
          /\ Fen(game') = ReplayKey(baseFen, moves, currentPly')]_vars

\* C33: undo on a history that is not empty removes exactly its last entry,
\* sets the cursor to the new length of the history, also when the cursor
\* stood before the tip, and shows the position and lastMove replayed over
\* the whole shortened history; undo on an empty history changes nothing.
C33_Undo ==
    [][op'.name = "undo"
       => IF moves = <<>>
          THEN UNCHANGED <<baseFen, moves, currentPly, game, lastMove>>
          ELSE /\ moves' = SubSeq(moves, 1, Len(moves) - 1)
               /\ baseFen' = baseFen
               /\ currentPly' = Len(moves')
               /\ ~ReplayRejected(LoadChess(baseFen), moves', 1, Len(moves'))
               /\ Fen(game') = StepKey(baseFen, moves', Len(moves'))
               /\ lastMove' = IF moves' = <<>> THEN NoMove
                               ELSE AppliedSquares(baseFen, moves', Len(moves'))]_vars

\* C34: every token the tokenizer returns is a non-empty text, for every
\* input text.
C34_TokensNonEmpty ==
    op.name = "tokenize"
    => \A i \in 1..Len(op.out.tokens) : op.out.tokens[i] # <<>>

\* C35: an import that fails leaves the game metadata shown (the players'
\* names, ratings and titles, the event line) as it was before the import.
C35_FailedImportKeepsMetadata ==
    [][(op'.name \in {"import", "onload"} /\ ~op'.ok)
       => whiteName' = whiteName]_vars

\* the cell that shows history index i (from 0)
CellOf(i) == <<i \div 2, i % 2>>

\* C36: a click on the move shown for history index i sets the cursor to
\* i + 1 and changes neither the history nor the base position; a click on a
\* cell that shows no move changes nothing; the cell highlighted as active is
\* the one that shows history[cursor - 1], and no cell is when cursor = 0.
C36_MoveListClicks ==
    /\ [][op'.name \in {"click", "stay"}
          => \A c \in MoveCells :
               clickCell(c[1], c[2])
               => IF 2 * c[1] + c[2] < Len(moves)
                  THEN /\ PairAt(c[1], c[2]) = moves[2 * c[1] + c[2] + 1]
                       /\ currentPly' = 2 * c[1] + c[2] + 1
                       /\ moves' = moves
                       /\ baseFen' = baseFen
                  ELSE UNCHANGED <<baseFen, moves, currentPly, game,
                                   lastMove>>]_vars
    /\ [](IF currentPly = 0 THEN ActiveCells = {}
          ELSE /\ currentPly <= Len(moves)
               /\ ActiveCells = {CellOf(currentPly - 1)}
               /\ PairAt(CellOf(currentPly - 1)[1], CellOf(currentPly - 1)[2])
                  = moves[currentPly])

\* C37: the loop of stripParenBlocks terminates for every text, the ones
\* with unbalanced parentheses included: each pass gives a strictly shorter
\* text or the same text, the loop stops at the first pass that gives the
\* same text, and what it returns is what the tokenizer uses.
C37_StripLoopTerminates ==
    /\ [][op'.name = "strip"
          => /\ Len(op'.arg) < Len(op.arg) \/ op'.arg = op.arg
             /\ op'.ok <=> op'.arg = op.arg
             /\ op'.cut <= Len(op.out) + 1]_vars
    /\ []((op.name = "strip" /\ op.ok)
          => /\ op.arg = stripParenBlocks(op.out)
             /\ op.arg = op.pieces)
    /\ <>(op.name = "strip" /\ op.ok)

\* the loop has returned after two passes on a text with an opening
\* parenthesis that is never closed
C37_Witness ==
    /\ op.name = "strip"
    /\ op.ok
    /\ op.out = <<"(", "(", ")">>
    /\ op.arg = <<"(", " ">>
    /\ op.cut = 2

====
